---- MODULE Spec2Model ----
(***************************************************************************)
(* Model of the workflow graph executor of DocAI-MCP:                      *)
(*   backend/app/services/workflow.py  execute_workflow_background,        *)
(*                                     _build_execution_order,             *)
(*                                     _execute_node                       *)
(*   backend/app/api/endpoints.py      create_workflow, execute_workflow,  *)
(*                                     get_workflow_execution              *)
(*   backend/app/models.py             Workflow, WorkflowExecution         *)
(* and of the text pipeline of its MCP server:                             *)
(*   mcp-server/server.py              _normalize_text,                    *)
(*                                     _split_text_into_chunks,            *)
(*                                     _hierarchical_summarize,            *)
(*                                     parse_ai_content_for_template,      *)
(*                                     _robust_json_loads, _deep_merge,    *)
(*                                     _infer_template_type                *)
(***************************************************************************)
EXTENDS Integers, Sequences, FiniteSets, TLC

VARIABLES
    arg_nodes,      \* _build_execution_order called alone: its nodes argument
    arg_edges,      \* ... its edges argument
    ret_order,      \* ... <<>> before the call, <<order>> after it
    workflow,       \* the workflows table: <<>> or <<[nodes, edges]>>
    execution,      \* the workflow_executions table: execution id -> row
    task,           \* the frame of each execute_workflow_background task
    calls,          \* per execution, the _execute_node calls made so far
    split,          \* _split_text_into_chunks called alone: its arguments and result
    summarize,      \* the frame of _hierarchical_summarize
    parse,          \* the frame of parse_ai_content_for_template
    env,            \* the integer settings of the process environment
    merge,          \* _deep_merge called alone: the heap, its arguments and result
    loads,          \* _robust_json_loads called alone: its argument and outcome
    scan,           \* the frame of one scan of _balanced_json_substrings
    infer           \* _infer_template_type called alone: its arguments and result

vars == <<arg_nodes, arg_edges, ret_order, workflow, execution, task, calls,
          split, summarize, parse, env, merge, loads, scan, infer>>

orderVars == <<arg_nodes, arg_edges, ret_order>>
execVars == <<workflow, execution, task, calls>>
textVars == <<split, summarize, parse, env>>
callVars == <<merge, loads, scan, infer>>

\* the frame of a function of the text pipeline that is not being called
NoCall == [pc |-> "idle"]
\* the environment with none of the settings
NoEnv == [name \in {} |-> 0]
TextIdle == split = NoCall /\ summarize = NoCall /\ parse = NoCall /\ env = NoEnv
CallIdle == merge = NoCall /\ loads = NoCall /\ scan = NoCall /\ infer = NoCall

(***************************************************************************)
(* Bounds of the model.                                                    *)
(***************************************************************************)
\* longest edge list handed to _build_execution_order when it is called alone
MaxEdges == 3
\* longest edge list of a stored workflow
MaxWfEdges == 2

(***************************************************************************)
(* Sequence helpers.                                                       *)
(***************************************************************************)
Range(s) == {s[i] : i \in DOMAIN s}

SeqsUpTo(S, n) == UNION {[1..k -> S] : k \in 0..n}

\* all lists of distinct elements of S
DistinctSeqs(S) ==
    {s \in SeqsUpTo(S, Cardinality(S)) :
        \A i, j \in DOMAIN s : i # j => s[i] # s[j]}

\* the position of x in s (x occurs in s)
IndexOf(s, x) == CHOOSE i \in DOMAIN s : s[i] = x

(***************************************************************************)
(* Workflow definitions (WorkflowNode, WorkflowEdge).                      *)
(***************************************************************************)
NodeIds == {"A", "B", "C"}

\* the type of each node of the pool: one handler that reads file_ids[0], one
\* that reads content, and one type _execute_node has no branch for
NodeType(id) ==
    CASE id = "A" -> "content_extractor"
      [] id = "B" -> "ai_processor"
      [] OTHER    -> "custom"

WorkflowNode(id) == [id |-> id, type |-> NodeType(id)]

NodePool == {WorkflowNode(id) : id \in NodeIds}

WorkflowEdge(s, t) == [source |-> s, target |-> t]

\* an edge may name an id that the node list does not hold
EdgePool == {WorkflowEdge(s, t) : s \in NodeIds, t \in NodeIds}

NodeLists == DistinctSeqs(NodePool)

IdsOf(nodes) == {nodes[i].id : i \in DOMAIN nodes}

(***************************************************************************)
(* _build_execution_order (workflow.py 286-311).                           *)
(***************************************************************************)
\* lines 292-297: the edges whose source and target are both keys are added to
\* the adjacency lists and counted in the in-degree of their target
RECURSIVE AddEdges(_, _, _, _)
AddEdges(graph, in_degree, edges, k) ==
    IF k > Len(edges) THEN [graph |-> graph, in_degree |-> in_degree]
    ELSE LET source == edges[k].source
             target == edges[k].target
         IN  IF source \in DOMAIN graph /\ target \in DOMAIN in_degree
             THEN AddEdges([graph EXCEPT ![source] = Append(@, target)],
                           [in_degree EXCEPT ![target] = @ + 1], edges, k + 1)
             ELSE AddEdges(graph, in_degree, edges, k + 1)

\* line 300: the keys of in_degree with degree 0, in the dict's insertion order
\* (the order of the node list)
RECURSIVE ZeroDegree(_, _, _)
ZeroDegree(nodes, in_degree, k) ==
    IF k > Len(nodes) THEN <<>>
    ELSE IF in_degree[nodes[k].id] = 0
              /\ \A j \in 1..(k - 1) : nodes[j].id # nodes[k].id
         THEN <<nodes[k].id>> \o ZeroDegree(nodes, in_degree, k + 1)
         ELSE ZeroDegree(nodes, in_degree, k + 1)

\* a mutant of Relax: a neighbour is enqueued as soon as it is seen
RelaxEager(in_degree, queue, nbrs, k) ==
    [in_degree |-> [n \in DOMAIN in_degree |->
                       in_degree[n] - Cardinality({j \in DOMAIN nbrs : nbrs[j] = n})],
     queue |-> queue \o nbrs]

\* lines 306-309: the in-degree of each neighbour is decremented; a neighbour
\* whose in-degree reaches 0 is appended to the queue
RECURSIVE Relax(_, _, _, _)
Relax(in_degree, queue, nbrs, k) ==
    IF k > Len(nbrs) THEN [in_degree |-> in_degree, queue |-> queue]
    ELSE LET neighbor == nbrs[k]
             d == in_degree[neighbor] - 1
         IN  Relax([in_degree EXCEPT ![neighbor] = d],
                   IF d = 0 THEN Append(queue, neighbor) ELSE queue,
                   nbrs, k + 1)

\* a mutant of Kahn: queue.pop() instead of queue.pop(0)
RECURSIVE KahnLifo(_, _, _, _)
KahnLifo(graph, in_degree, queue, order) ==
    IF queue = <<>> THEN order
    ELSE LET node == queue[Len(queue)]
             r == Relax(in_degree, SubSeq(queue, 1, Len(queue) - 1), graph[node], 1)
         IN  KahnLifo(graph, r.in_degree, r.queue, Append(order, node))

\* lines 303-309: Kahn's algorithm, the queue served first in, first out
RECURSIVE Kahn(_, _, _, _)
Kahn(graph, in_degree, queue, order) ==
    IF queue = <<>> THEN order
    ELSE LET node == Head(queue)
             r == Relax(in_degree, Tail(queue), graph[node], 1)
         IN  Kahn(graph, r.in_degree, r.queue, Append(order, node))

_build_execution_order(nodes, edges) ==
    LET graph0 == [id \in IdsOf(nodes) |-> <<>>]
        in_degree0 == [id \in IdsOf(nodes) |-> 0]
        g == AddEdges(graph0, in_degree0, edges, 1)
        queue == ZeroDegree(nodes, g.in_degree, 1)
    IN  Kahn(g.graph, g.in_degree, queue, <<>>)

(***************************************************************************)
(* _build_execution_order called alone on every node list and edge list of *)
(* the bounds.                                                             *)
(***************************************************************************)
InitExecutor ==
    /\ workflow = <<>>
    /\ execution = <<>>
    /\ task = <<>>
    /\ calls = <<>>

InitOrder ==
    /\ arg_nodes \in NodeLists
    /\ arg_edges \in SeqsUpTo(EdgePool, MaxEdges)
    /\ ret_order = <<>>
    /\ InitExecutor
    /\ CallIdle
    /\ TextIdle

CallBuildExecutionOrder ==
    /\ ret_order = <<>>
    /\ ret_order' = <<_build_execution_order(arg_nodes, arg_edges)>>
    /\ UNCHANGED <<arg_nodes, arg_edges, execVars, textVars, callVars>>

NextOrder == CallBuildExecutionOrder

SpecOrder == InitOrder /\ [][NextOrder]_vars

(***************************************************************************)
(* Node results and the DataContext (current_data).                        *)
(***************************************************************************)
\* a node result as the executor reads it: a key that is absent, None or ""
\* is "" here (dict.get is tested for truth only)
Result(content, file_id, result_file_id, error) ==
    [content |-> content, file_id |-> file_id,
     result_file_id |-> result_file_id, error |-> error]

ErrorResult(msg) == Result("", "", "", msg)

\* what a tool endpoint may answer (resp.json())
Responses ==
    {Result("c1", "", "", ""),
     Result("c2", "f1", "", ""),
     Result("", "", "f2", ""),
     Result("", "f1", "f2", ""),
     Result("", "not-a-uuid", "", ""),
     ErrorResult("tool failed")}

\* what the HTTP call may raise
Exceptions == {"ConnectError"}

Return(r) == [raised |-> FALSE, result |-> r, text |-> ""]
Raise(text) == [raised |-> TRUE, result |-> ErrorResult(""), text |-> text]

HttpOutcomes == {Return(r) : r \in Responses} \cup {Raise(x) : x \in Exceptions}

\* the input_file_ids of an execution request
InputFileIds == {<<>>, <<"f0">>, <<"f0", "f3">>}

\* uuid.UUID(s) (line 274) raises ValueError on a string that is no UUID; the
\* input file ids are UUIDs already (endpoints.py 790)
IsUuid(s) == s # "not-a-uuid"

\* node types whose handler reads input_data["file_ids"][0]
FileNodeTypes ==
    {"content_extractor", "document_analyzer", "document_reviewer", "audio_transcriber"}

\* node types whose handler reads input_data["content"]
ContentNodeTypes == {"document_generator", "ai_processor"}

(***************************************************************************)
(* _execute_node (workflow.py 314-399): the outcomes of one call.          *)
(* input_data always holds the key file_ids, so .get("file_ids", [None])   *)
(* is the list itself and [0] of an empty list raises IndexError.          *)
(***************************************************************************)
_execute_node(node, input_data) ==
    IF node.type \in FileNodeTypes
    THEN IF input_data.file_ids = <<>>
         THEN {Raise("list index out of range")}
         ELSE IF input_data.file_ids[1] = ""
              THEN {Return(ErrorResult("No file_id provided"))}
              ELSE HttpOutcomes
    ELSE IF node.type \in ContentNodeTypes
         THEN HttpOutcomes
         ELSE {Return(ErrorResult("Unknown node type"))}

\* a mutant of ThreadContext: content is concatenated and artifact ids are
\* appended instead of replaced
ThreadContextMerge(current_data, node_result) ==
    [content |-> IF node_result.content # ""
                 THEN current_data.content \o node_result.content
                 ELSE current_data.content,
     file_ids |-> IF node_result.result_file_id # ""
                  THEN Append(current_data.file_ids, node_result.result_file_id)
                  ELSE IF node_result.file_id # ""
                       THEN Append(current_data.file_ids, node_result.file_id)
                       ELSE current_data.file_ids]

\* lines 263-269: the context for the next node
ThreadContext(current_data, node_result) ==
    LET c1 == IF node_result.content # ""
              THEN [current_data EXCEPT !.content = node_result.content]
              ELSE current_data
        c2 == IF node_result.file_id # ""
              THEN [c1 EXCEPT !.file_ids = <<node_result.file_id>>]
              ELSE c1
    IN  IF node_result.result_file_id # ""
        THEN [c2 EXCEPT !.file_ids = <<node_result.result_file_id>>]
        ELSE c2

(***************************************************************************)
(* The tables and the endpoints (endpoints.py).                            *)
(***************************************************************************)
ExecutionIds == {"e1"}

\* create_workflow (706-726): the node and edge lists are stored as given
create_workflow(nodes, edges) ==
    /\ workflow = <<>>
    /\ workflow' = <<[nodes |-> nodes, edges |-> edges]>>
    /\ UNCHANGED <<orderVars, textVars, callVars, execution, task, calls>>

\* a POST /workflows/create with a node list and an edge list of the bounds
CreateWorkflowRequest ==
    /\ workflow = <<>>
    /\ \E nodes \in NodeLists, edges \in SeqsUpTo(EdgePool, MaxWfEdges) :
           create_workflow(nodes, edges)

\* execute_workflow (769-800): a pending row, and the background task scheduled
execute_workflow(e, input_file_ids) ==
    /\ workflow # <<>>
    /\ e \notin DOMAIN execution
    /\ execution' = [x \in DOMAIN execution \cup {e} |->
                        IF x = e
                        THEN [status |-> "pending",
                              input_file_ids |-> input_file_ids,
                              current_node |-> "",
                              node_results |-> <<>>,
                              output_file_id |-> "",
                              error_message |-> ""]
                        ELSE execution[x]]
    /\ task' = [x \in DOMAIN task \cup {e} |->
                   IF x = e
                   THEN [pc |-> "start", nodes |-> <<>>, node_order |-> <<>>, i |-> 1,
                         node_results |-> <<>>,
                         current_data |-> [file_ids |-> <<>>, content |-> ""]]
                   ELSE task[x]]
    /\ calls' = [x \in DOMAIN calls \cup {e} |-> IF x = e THEN <<>> ELSE calls[x]]
    /\ UNCHANGED <<orderVars, textVars, callVars, workflow>>

\* get_workflow_execution (803-829): node_results is null while the column is
\* empty, and the decoded map once it is written
get_workflow_execution(e) ==
    [status |-> execution[e].status,
     current_node |-> execution[e].current_node,
     node_results |-> execution[e].node_results,
     output_file_id |-> execution[e].output_file_id,
     error |-> execution[e].error_message]

(***************************************************************************)
(* execute_workflow_background (workflow.py 209-283), one action for each  *)
(* stretch between two awaits.                                             *)
(***************************************************************************)
\* a mutant of FailExecution: the error text is not recorded
FailExecutionNoText(e, text) ==
    /\ execution' = [execution EXCEPT ![e].status = "failed"]
    /\ task' = [task EXCEPT ![e].pc = "done"]

\* lines 278-283 (and 230-233): the except branch and the commit after it
FailExecution(e, text) ==
    /\ execution' = [execution EXCEPT ![e].status = "failed",
                                      ![e].error_message = text]
    /\ task' = [task EXCEPT ![e].pc = "done"]

\* lines 223-233: the workflow row is not there
WorkflowNotFound(e) ==
    /\ e \in DOMAIN task
    /\ task[e].pc = "start"
    /\ FailExecution(e, "Workflow not found")
    /\ UNCHANGED <<orderVars, textVars, callVars, workflow, calls>>

\* a mutant of StartRunning: the row is not marked running
StartRunningUnmarked(e) ==
    /\ e \in DOMAIN task
    /\ task[e].pc = "start"
    /\ workflow # <<>>
    /\ task' = [task EXCEPT ![e].pc = "build"]
    /\ UNCHANGED <<orderVars, textVars, callVars, workflow, execution, calls>>

\* lines 235-237: the row is marked running, whatever its status was
StartRunning(e) ==
    /\ e \in DOMAIN task
    /\ task[e].pc = "start"
    /\ workflow # <<>>
    /\ execution' = [execution EXCEPT ![e].status = "running"]
    /\ task' = [task EXCEPT ![e].pc = "build"]
    /\ UNCHANGED <<orderVars, textVars, callVars, workflow, calls>>

\* lines 239-249: the order is computed and the context seeded
BuildOrder(e) ==
    /\ e \in DOMAIN task
    /\ task[e].pc = "build"
    /\ LET nodes == workflow[1].nodes
           edges == workflow[1].edges
       IN  task' = [task EXCEPT
                       ![e].pc = "loop",
                       ![e].nodes = nodes,
                       ![e].node_order = _build_execution_order(nodes, edges),
                       ![e].i = 1,
                       ![e].node_results = <<>>,
                       ![e].current_data =
                           [file_ids |-> execution[e].input_file_ids, content |-> ""]]
    /\ UNCHANGED <<orderVars, textVars, callVars, workflow, execution, calls>>

\* line 252: the first node of the list with this id
NodeById(nodes, node_id) ==
    nodes[CHOOSE k \in DOMAIN nodes :
              /\ nodes[k].id = node_id
              /\ \A j \in 1..(k - 1) : nodes[j].id # node_id]

\* lines 251-257: the next node of the order becomes current_node
RecordCurrentNode(e) ==
    /\ e \in DOMAIN task
    /\ task[e].pc = "loop"
    /\ task[e].i <= Len(task[e].node_order)
    /\ execution' = [execution EXCEPT ![e].current_node = task[e].node_order[task[e].i]]
    /\ task' = [task EXCEPT ![e].pc = "exec"]
    /\ UNCHANGED <<orderVars, textVars, callVars, workflow, calls>>

\* the node being executed and the call made for it
CurrentNode(e) == NodeById(task[e].nodes, task[e].node_order[task[e].i])

\* the record kept of one _execute_node call: the node, the context handed to
\* it, and how the call ended
Call(e, o) ==
    [node_id |-> CurrentNode(e).id, input_data |-> task[e].current_data,
     raised |-> o.raised, result |-> o.result, text |-> o.text]

\* a mutant of StoreResult: current_data is one object of the module, so the
\* result is threaded into the context of every running task
StoreResultShared(e, r) ==
    [x \in DOMAIN task |->
        IF x = e
        THEN [task[x] EXCEPT !.pc = "loop",
                             !.i = @ + 1,
                             !.node_results =
                                 [n \in DOMAIN @ \cup {CurrentNode(e).id} |->
                                     IF n = CurrentNode(e).id THEN r ELSE @[n]],
                             !.current_data = ThreadContext(@, r)]
        ELSE [task[x] EXCEPT !.current_data = ThreadContext(@, r)]]

\* a mutant of StoreResult: the result replaces the map instead of joining it
StoreResultAlone(e, r) ==
    [task EXCEPT ![e].pc = "loop",
                 ![e].i = @ + 1,
                 ![e].node_results = [n \in {CurrentNode(e).id} |-> r],
                 ![e].current_data = ThreadContext(@, r)]

\* lines 261-269: the result is stored under the node's id, the context threaded
StoreResult(e, r) ==
    [task EXCEPT ![e].pc = "loop",
                 ![e].i = @ + 1,
                 ![e].node_results =
                     [n \in DOMAIN @ \cup {CurrentNode(e).id} |->
                         IF n = CurrentNode(e).id THEN r ELSE @[n]],
                 ![e].current_data = ThreadContext(@, r)]

\* lines 260-269: the handler returns; the result is stored and the context threaded
NodeReturns(e) ==
    /\ e \in DOMAIN task
    /\ task[e].pc = "exec"
    /\ \E o \in _execute_node(CurrentNode(e), task[e].current_data) :
           /\ ~o.raised
           /\ task' = StoreResult(e, o.result)
           /\ calls' = [calls EXCEPT ![e] = Append(@, Call(e, o))]
    /\ UNCHANGED <<orderVars, textVars, callVars, workflow, execution>>

\* lines 260, 278-283: the handler raises; the execution fails
NodeRaises(e) ==
    /\ e \in DOMAIN task
    /\ task[e].pc = "exec"
    /\ \E o \in _execute_node(CurrentNode(e), task[e].current_data) :
           /\ o.raised
           /\ FailExecution(e, o.text)
           /\ calls' = [calls EXCEPT ![e] = Append(@, Call(e, o))]
    /\ UNCHANGED <<orderVars, textVars, callVars, workflow>>

\* a mutant of OutputFileId: the output is never recorded
OutputFileIdKept(current_data, old) == old

\* lines 273-274: the first file id of the final context, if it has one
OutputFileId(current_data, old) ==
    IF current_data.file_ids # <<>> THEN current_data.file_ids[1] ELSE old

\* lines 272-274, 278-283: the results are saved, then uuid.UUID rejects the
\* file id of the final context and the execution fails
OutputIdRejected(e) ==
    /\ e \in DOMAIN task
    /\ task[e].pc = "loop"
    /\ task[e].i > Len(task[e].node_order)
    /\ task[e].current_data.file_ids # <<>>
    /\ ~IsUuid(task[e].current_data.file_ids[1])
    /\ execution' = [execution EXCEPT
                        ![e].node_results = <<task[e].node_results>>,
                        ![e].status = "failed",
                        ![e].error_message = "badly formed hexadecimal UUID string"]
    /\ task' = [task EXCEPT ![e].pc = "done"]
    /\ UNCHANGED <<orderVars, textVars, callVars, workflow, calls>>

\* lines 271-276, 283: the results are saved and the execution completes
CompleteExecution(e) ==
    /\ e \in DOMAIN task
    /\ task[e].pc = "loop"
    /\ task[e].i > Len(task[e].node_order)
    /\ task[e].current_data.file_ids # <<>> => IsUuid(task[e].current_data.file_ids[1])
    /\ execution' = [execution EXCEPT
                        ![e].node_results = <<task[e].node_results>>,
                        ![e].output_file_id = OutputFileId(task[e].current_data, @),
                        ![e].status = "completed"]
    /\ task' = [task EXCEPT ![e].pc = "done"]
    /\ UNCHANGED <<orderVars, textVars, callVars, workflow, calls>>

Init ==
    /\ arg_nodes = <<>>
    /\ arg_edges = <<>>
    /\ ret_order = <<>>
    /\ InitExecutor
    /\ CallIdle
    /\ TextIdle

Next ==
    \/ CreateWorkflowRequest
    \/ \E e \in ExecutionIds, ids \in InputFileIds : execute_workflow(e, ids)
    \/ \E e \in ExecutionIds : WorkflowNotFound(e)
    \/ \E e \in ExecutionIds : StartRunning(e)
    \/ \E e \in ExecutionIds : BuildOrder(e)
    \/ \E e \in ExecutionIds : RecordCurrentNode(e)
    \/ \E e \in ExecutionIds : NodeReturns(e)
    \/ \E e \in ExecutionIds : NodeRaises(e)
    \/ \E e \in ExecutionIds : OutputIdRejected(e)
    \/ \E e \in ExecutionIds : CompleteExecution(e)

Spec == Init /\ [][Next]_vars

(***************************************************************************)
(* The executor with a writer of the status cancelled: models.py lists the *)
(* status, no code of the repository writes it. A row is cancelled while   *)
(* it is still pending.                                                    *)
(***************************************************************************)
Cancel(e) ==
    /\ e \in DOMAIN execution
    /\ execution[e].status = "pending"
    /\ execution' = [execution EXCEPT ![e].status = "cancelled"]
    /\ UNCHANGED <<orderVars, textVars, callVars, workflow, task, calls>>

\* the workflow definition is there: the run of the executor past line 228
NextCancel ==
    \/ CreateWorkflowRequest
    \/ \E e \in ExecutionIds, ids \in InputFileIds : execute_workflow(e, ids)
    \/ \E e \in ExecutionIds : Cancel(e)
    \/ \E e \in ExecutionIds : StartRunning(e)
    \/ \E e \in ExecutionIds : BuildOrder(e)
    \/ \E e \in ExecutionIds : RecordCurrentNode(e)
    \/ \E e \in ExecutionIds : NodeReturns(e)
    \/ \E e \in ExecutionIds : NodeRaises(e)
    \/ \E e \in ExecutionIds : OutputIdRejected(e)
    \/ \E e \in ExecutionIds : CompleteExecution(e)

SpecCancel == Init /\ [][NextCancel]_vars

(***************************************************************************)
(* The executor with commits that raise (lines 232, 237, 257, 283). A      *)
(* commit that raises writes nothing: the row stays as the last commit     *)
(* that returned left it. What a commit writes after an earlier commit of  *)
(* the session raised is the library's business; the model lets it return  *)
(* and write the status, with or without the current_node assigned before. *)
(***************************************************************************)
\* line 283 (or 232): the last commit of the run raises and the task ends
\* with the exception
LastCommitRaises(e) ==
    /\ task' = [task EXCEPT ![e].pc = "done"]
    /\ UNCHANGED execution

\* lines 229-232: the workflow row is not there and the commit raises
NotFoundCommitRaises(e) ==
    /\ e \in DOMAIN task
    /\ task[e].pc = "start"
    /\ LastCommitRaises(e)
    /\ UNCHANGED <<orderVars, textVars, callVars, workflow, calls>>

\* the run is about to commit inside the try: running (237) or the
\* current node (257)
AtCommitInTry(e) ==
    /\ e \in DOMAIN task
    /\ \/ task[e].pc = "start" /\ workflow # <<>>
       \/ task[e].pc = "loop" /\ task[e].i <= Len(task[e].node_order)

\* lines 237 or 257, 278-283: the commit raises, the except branch fails the
\* execution and the commit after it returns
CommitInTryRaises(e) ==
    /\ AtCommitInTry(e)
    /\ \E current_node \in {execution[e].current_node}
                               \cup {task[e].node_order[k] :
                                        k \in {task[e].i} \cap DOMAIN task[e].node_order} :
           execution' = [execution EXCEPT ![e].status = "failed",
                                          ![e].error_message = "commit failed",
                                          ![e].current_node = current_node]
    /\ task' = [task EXCEPT ![e].pc = "done"]
    /\ UNCHANGED <<orderVars, textVars, callVars, workflow, calls>>

\* lines 237 or 257, 278-283: the commit raises, and the commit after the
\* except branch raises too
CommitInTryRaisesTwice(e) ==
    /\ AtCommitInTry(e)
    /\ LastCommitRaises(e)
    /\ UNCHANGED <<orderVars, textVars, callVars, workflow, calls>>

\* lines 271-283: the loop is over, completed or failed is assigned, and the
\* commit raises
ResultCommitRaises(e) ==
    /\ e \in DOMAIN task
    /\ task[e].pc = "loop"
    /\ task[e].i > Len(task[e].node_order)
    /\ LastCommitRaises(e)
    /\ UNCHANGED <<orderVars, textVars, callVars, workflow, calls>>

\* lines 260, 278-283: the handler raises, failed is assigned, and the commit
\* raises
NodeRaisesCommitRaises(e) ==
    /\ e \in DOMAIN task
    /\ task[e].pc = "exec"
    /\ \E o \in _execute_node(CurrentNode(e), task[e].current_data) :
           /\ o.raised
           /\ calls' = [calls EXCEPT ![e] = Append(@, Call(e, o))]
    /\ LastCommitRaises(e)
    /\ UNCHANGED <<orderVars, textVars, callVars, workflow>>

\* a step of the task of e, its commits returning
RunStep(e) ==
    \/ WorkflowNotFound(e)
    \/ StartRunning(e)
    \/ BuildOrder(e)
    \/ RecordCurrentNode(e)
    \/ NodeReturns(e)
    \/ NodeRaises(e)
    \/ OutputIdRejected(e)
    \/ CompleteExecution(e)

NextCommit ==
    \/ CreateWorkflowRequest
    \/ \E e \in ExecutionIds, ids \in InputFileIds : execute_workflow(e, ids)
    \/ \E e \in ExecutionIds : RunStep(e)
    \/ \E e \in ExecutionIds : NotFoundCommitRaises(e)
    \/ \E e \in ExecutionIds : CommitInTryRaises(e)
    \/ \E e \in ExecutionIds : CommitInTryRaisesTwice(e)
    \/ \E e \in ExecutionIds : ResultCommitRaises(e)
    \/ \E e \in ExecutionIds : NodeRaisesCommitRaises(e)

\* the event loop runs a scheduled task on: each await of the task returns
\* or raises
SpecCommit ==
    /\ Init
    /\ [][NextCommit]_vars
    /\ \A e \in ExecutionIds :
           WF_vars(\/ RunStep(e)
                   \/ NotFoundCommitRaises(e)
                   \/ CommitInTryRaises(e)
                   \/ CommitInTryRaisesTwice(e)
                   \/ ResultCommitRaises(e)
                   \/ NodeRaisesCommitRaises(e))

(***************************************************************************)
(* Two executions of one stored workflow, their tasks interleaved at the   *)
(* awaits.                                                                 *)
(***************************************************************************)
TwoExecutionIds == {"e1", "e2"}

TwoRunWorkflows ==
    {[nodes |-> <<WorkflowNode("A"), WorkflowNode("B")>>, edges |-> <<>>],
     [nodes |-> <<WorkflowNode("B"), WorkflowNode("C")>>,
      edges |-> <<WorkflowEdge("C", "B")>>],
     [nodes |-> <<WorkflowNode("A")>>, edges |-> <<WorkflowEdge("A", "A")>>]}

InitTwo ==
    /\ arg_nodes = <<>>
    /\ arg_edges = <<>>
    /\ ret_order = <<>>
    /\ workflow \in {<<w>> : w \in TwoRunWorkflows}
    /\ execution = <<>>
    /\ task = <<>>
    /\ calls = <<>>
    /\ CallIdle
    /\ TextIdle

NextTwo ==
    \/ \E e \in TwoExecutionIds, ids \in InputFileIds : execute_workflow(e, ids)
    \/ \E e \in TwoExecutionIds : WorkflowNotFound(e)
    \/ \E e \in TwoExecutionIds : StartRunning(e)
    \/ \E e \in TwoExecutionIds : BuildOrder(e)
    \/ \E e \in TwoExecutionIds : RecordCurrentNode(e)
    \/ \E e \in TwoExecutionIds : NodeReturns(e)
    \/ \E e \in TwoExecutionIds : NodeRaises(e)
    \/ \E e \in TwoExecutionIds : OutputIdRejected(e)
    \/ \E e \in TwoExecutionIds : CompleteExecution(e)

SpecTwo == InitTwo /\ [][NextTwo]_vars

(***************************************************************************)
(* Text (mcp-server/server.py). A str is the sequence of its characters,   *)
(* each a one-character string.                                            *)
(***************************************************************************)
\* longest text drawn character by character
MaxTextLen == 6
\* largest max_chars, overlap_chars and max_chunks handed to the splitter
MaxChars == 4
MaxOverlap == 2
MaxChunks == 3

Chars == {"a", "b", " ", "\n"}

\* texts with carriage returns and with runs of four and more newlines
SampleTexts ==
    {<<"a", "\r", "\n", "b">>,
     <<"a", "\r", "b", "\r">>,
     <<"\r", "\n", "a", "b", "\r", "\n", "\r", "\n", "b">>,
     <<"a", "\n", "\n", "\n", "\n", "b">>,
     <<"a", "b", "\n", "\n", "\n", "\n", "\n", "b", "a">>,
     <<"b", " ", "\n", "\n", "\n", "\n", " ", "a">>,
     <<"a", "\n", "\n", "b", "\n", "\n", "a">>,
     <<"a", "\n", "\n", "b", "\n", "\n", "a", "b", "b", "a", "b">>,
     <<"a", "b", "\n", "\n", "\n", "a", " ", "\n", "\n", " ", "b", "\n", "a">>}

Texts == SeqsUpTo(Chars, MaxTextLen) \cup SampleTexts

Min2(a, b) == IF a <= b THEN a ELSE b
Max2(a, b) == IF a >= b THEN a ELSE b

\* the characters str.strip() removes
IsSpace(c) == c \in {" ", "\n", "\r", "\t", "\f"}

RECURSIVE lstrip(_)
lstrip(s) == IF s # <<>> /\ IsSpace(s[1]) THEN lstrip(Tail(s)) ELSE s

RECURSIVE rstrip(_)
rstrip(s) ==
    IF s # <<>> /\ IsSpace(s[Len(s)]) THEN rstrip(SubSeq(s, 1, Len(s) - 1)) ELSE s

strip(s) == rstrip(lstrip(s))

\* str.lower() on the capital letters of the model's texts
lower(s) ==
    LET upper == <<"A", "E", "I", "J", "M", "N", "O", "S">>
        lowered == <<"a", "e", "i", "j", "m", "n", "o", "s">>
    IN  [i \in DOMAIN s |->
            IF \E k \in DOMAIN upper : upper[k] = s[i]
            THEN lowered[CHOOSE k \in DOMAIN upper : upper[k] = s[i]]
            ELSE s[i]]

\* "sep".join(parts)
RECURSIVE join(_, _)
join(sep, parts) ==
    IF parts = <<>> THEN <<>>
    ELSE IF Len(parts) = 1 THEN parts[1]
    ELSE parts[1] \o sep \o join(sep, Tail(parts))

\* the number of newlines s starts with
RECURSIVE NewlineRun(_)
NewlineRun(s) ==
    IF s # <<>> /\ s[1] = "\n" THEN 1 + NewlineRun(Tail(s)) ELSE 0

\* line 78: .replace("\r\n", "\n")
RECURSIVE ReplaceCRLF(_)
ReplaceCRLF(s) ==
    IF s = <<>> THEN <<>>
    ELSE IF Len(s) >= 2 /\ s[1] = "\r" /\ s[2] = "\n"
         THEN <<"\n">> \o ReplaceCRLF(SubSeq(s, 3, Len(s)))
         ELSE <<s[1]>> \o ReplaceCRLF(Tail(s))

\* line 78: .replace("\r", "\n")
ReplaceCR(s) == [i \in DOMAIN s |-> IF s[i] = "\r" THEN "\n" ELSE s[i]]

\* line 79: re.sub(r"\n{4,}", "\n\n\n", text)
RECURSIVE CollapseNewlines(_)
CollapseNewlines(s) ==
    IF s = <<>> THEN <<>>
    ELSE LET n == NewlineRun(s)
         IN  IF n >= 4
             THEN <<"\n", "\n", "\n">> \o CollapseNewlines(SubSeq(s, n + 1, Len(s)))
             ELSE IF n > 0
                  THEN SubSeq(s, 1, n) \o CollapseNewlines(SubSeq(s, n + 1, Len(s)))
                  ELSE <<s[1]>> \o CollapseNewlines(Tail(s))

\* lines 77-80
_normalize_text(text) == strip(CollapseNewlines(ReplaceCR(ReplaceCRLF(text))))

\* line 89: re.split(r"\n{2,}", text); piece is the part collected so far
RECURSIVE re_split_blank_lines(_, _)
re_split_blank_lines(s, piece) ==
    IF s = <<>> THEN <<piece>>
    ELSE LET n == NewlineRun(s)
         IN  IF n >= 2
             THEN <<piece>> \o re_split_blank_lines(SubSeq(s, n + 1, Len(s)), <<>>)
             ELSE re_split_blank_lines(Tail(s), Append(piece, s[1]))

\* line 89: the pieces that are not blank
Paragraphs(text) ==
    SelectSeq(re_split_blank_lines(text, <<>>), LAMBDA p : strip(p) # <<>>)

\* lines 94-102: the paragraphs collected become one chunk, unless it is empty
flush(st) ==
    IF st.current = <<>> THEN st
    ELSE LET chunk == strip(join(<<"\n", "\n">>, st.current))
         IN  [chunks |-> IF chunk # <<>> THEN Append(st.chunks, chunk) ELSE st.chunks,
              current |-> <<>>,
              current_len |-> 0]

\* a mutant of HardSplit: the windows are one character wider
RECURSIVE HardSplitWide(_, _, _, _, _, _)
HardSplitWide(para, start, chunks, max_chars, overlap_chars, max_chunks) ==
    IF start < Len(para) /\ Len(chunks) < max_chunks
    THEN LET end == Min2(start + max_chars + 1, Len(para))
             appended == Append(chunks, strip(SubSeq(para, start + 1, end)))
         IN  IF end >= Len(para) THEN appended
             ELSE HardSplitWide(para, Max2(0, end - overlap_chars), appended,
                                max_chars, overlap_chars, max_chunks)
    ELSE chunks

\* a mutant of HardSplit: the next window starts one character after the last
RECURSIVE HardSplitGap(_, _, _, _, _, _)
HardSplitGap(para, start, chunks, max_chars, overlap_chars, max_chunks) ==
    IF start < Len(para) /\ Len(chunks) < max_chunks
    THEN LET end == Min2(start + max_chars, Len(para))
             appended == Append(chunks, strip(SubSeq(para, start + 1, end)))
         IN  IF end >= Len(para) THEN appended
             ELSE HardSplitGap(para, end + 1, appended,
                               max_chars, overlap_chars, max_chunks)
    ELSE chunks

\* lines 111-117: a paragraph longer than max_chars is cut into windows
RECURSIVE HardSplit(_, _, _, _, _, _)
HardSplit(para, start, chunks, max_chars, overlap_chars, max_chunks) ==
    IF start < Len(para) /\ Len(chunks) < max_chunks
    THEN LET end == Min2(start + max_chars, Len(para))
             appended == Append(chunks, strip(SubSeq(para, start + 1, end)))
         IN  IF end >= Len(para) THEN appended
             ELSE HardSplit(para, Max2(0, end - overlap_chars), appended,
                            max_chars, overlap_chars, max_chunks)
    ELSE chunks

\* lines 104-125: the loop over the paragraphs, from the k-th on
RECURSIVE PackParagraphs(_, _, _, _, _, _)
PackParagraphs(paragraphs, k, st, max_chars, overlap_chars, max_chunks) ==
    IF k > Len(paragraphs) THEN st
    ELSE LET para == strip(paragraphs[k])
         IN  IF para = <<>>
             THEN PackParagraphs(paragraphs, k + 1, st,
                                 max_chars, overlap_chars, max_chunks)
             ELSE IF Len(para) > max_chars
             THEN LET f == flush(st)
                      cut == [f EXCEPT !.chunks = HardSplit(para, 0, @, max_chars,
                                                            overlap_chars, max_chunks)]
                  IN  PackParagraphs(paragraphs, k + 1, cut,
                                     max_chars, overlap_chars, max_chunks)
             ELSE LET f == IF st.current_len + Len(para)
                                + (IF st.current # <<>> THEN 2 ELSE 0) > max_chars
                           THEN flush(st) ELSE st
                      g == [f EXCEPT !.current = Append(@, para),
                                     !.current_len =
                                         @ + Len(para) + (IF @ # 0 THEN 2 ELSE 0)]
                  IN  IF Len(g.chunks) >= max_chunks THEN g
                      ELSE PackParagraphs(paragraphs, k + 1, g,
                                          max_chars, overlap_chars, max_chunks)

\* lines 82-130
_split_text_into_chunks(text, max_chars, overlap_chars, max_chunks) ==
    LET normalized == _normalize_text(text)
    IN  IF normalized = <<>> THEN <<>>
        ELSE IF Len(normalized) <= max_chars THEN <<normalized>>
        ELSE LET st == flush(PackParagraphs(
                           Paragraphs(normalized), 1,
                           [chunks |-> <<>>, current |-> <<>>, current_len |-> 0],
                           max_chars, overlap_chars, max_chunks))
             IN  IF Len(st.chunks) > max_chunks
                 THEN SubSeq(st.chunks, 1, max_chunks)
                 ELSE st.chunks

(***************************************************************************)
(* _split_text_into_chunks called alone, on every text and every positive  *)
(* max_chars, overlap_chars and max_chunks of the bounds.                  *)
(***************************************************************************)
InitSplit ==
    /\ arg_nodes = <<>>
    /\ arg_edges = <<>>
    /\ ret_order = <<>>
    /\ InitExecutor
    /\ CallIdle
    /\ split \in [pc : {"call"}, text : Texts, max_chars : 1..MaxChars,
                  overlap_chars : 1..MaxOverlap, max_chunks : 1..MaxChunks,
                  ret : {<<>>}]
    /\ summarize = NoCall
    /\ parse = NoCall
    /\ env = NoEnv

CallSplitTextIntoChunks ==
    /\ split.pc = "call"
    /\ split' = [split EXCEPT
                    !.pc = "done",
                    !.ret = _split_text_into_chunks(split.text, split.max_chars,
                                                    split.overlap_chars, split.max_chunks)]
    /\ UNCHANGED <<orderVars, execVars, callVars, summarize, parse, env>>

NextSplit == CallSplitTextIntoChunks

SpecSplit == InitSplit /\ [][NextSplit]_vars

(***************************************************************************)
(* The environment and the completion service.                             *)
(***************************************************************************)
\* lines 70-75: the setting if it is there and positive, else the default
_env_int(name, default) ==
    IF name \in DOMAIN env /\ env[name] > 0 THEN env[name] ELSE default

\* environments of a deployment scaled to short texts; AI_EXTRACT_MAX_CHUNKS is
\* unset in some, and zero (which _env_int takes as unset) in others
Envs ==
    {[AI_CHUNK_SIZE_CHARS |-> 2, AI_CHUNK_OVERLAP_CHARS |-> 1, AI_MAX_CHUNKS |-> 2,
      AI_MAX_DIRECT_EXTRACT_CHARS |-> 3, AI_EXTRACT_CHUNK_SIZE_CHARS |-> 2,
      AI_EXTRACT_CHUNK_OVERLAP_CHARS |-> 1, AI_SUMMARY_TARGET_CHARS |-> 2],
     [AI_CHUNK_SIZE_CHARS |-> 3, AI_CHUNK_OVERLAP_CHARS |-> 1, AI_MAX_CHUNKS |-> 1,
      AI_MAX_DIRECT_EXTRACT_CHARS |-> 2, AI_EXTRACT_CHUNK_SIZE_CHARS |-> 2,
      AI_EXTRACT_CHUNK_OVERLAP_CHARS |-> 2, AI_SUMMARY_TARGET_CHARS |-> 3,
      AI_EXTRACT_MAX_CHUNKS |-> 2],
     [AI_CHUNK_SIZE_CHARS |-> 1, AI_CHUNK_OVERLAP_CHARS |-> 2, AI_MAX_CHUNKS |-> 2,
      AI_MAX_DIRECT_EXTRACT_CHARS |-> 1, AI_EXTRACT_CHUNK_SIZE_CHARS |-> 3,
      AI_EXTRACT_CHUNK_OVERLAP_CHARS |-> 1, AI_SUMMARY_TARGET_CHARS |-> 1,
      AI_EXTRACT_MAX_CHUNKS |-> 0]}

ThinkOpen == <<"<", "t", "h", "i", "n", "k", ">">>
ThinkClose == <<"<", "/", "t", "h", "i", "n", "k", ">">>

\* the first position from `from` on where pat occurs in s, 0 if nowhere
Find(s, pat, from) ==
    LET hits == {i \in from..(Len(s) - Len(pat) + 1) :
                    SubSeq(s, i, i + Len(pat) - 1) = pat}
    IN  IF hits = {} THEN 0 ELSE CHOOSE i \in hits : \A j \in hits : i <= j

\* line 133: re.sub(r"<think>[\s\S]*?</think>", "", text)
RECURSIVE RemoveThink(_)
RemoveThink(s) ==
    LET open == Find(s, ThinkOpen, 1)
        close == IF open = 0 THEN 0 ELSE Find(s, ThinkClose, open + Len(ThinkOpen))
    IN  IF close = 0 THEN s
        ELSE SubSeq(s, 1, open - 1)
                 \o RemoveThink(SubSeq(s, close + Len(ThinkClose), Len(s)))

\* lines 132-133
_strip_think(text) == strip(RemoveThink(text))

(***************************************************************************)
(* JSON values: None, str, int, bool, list and dict (keys to values).      *)
(***************************************************************************)
JNull == [type |-> "null"]
JStr(s) == [type |-> "str", str |-> s]
JInt(n) == [type |-> "int", int |-> n]
JBool(b) == [type |-> "bool", bool |-> b]
JList(items) == [type |-> "list", items |-> items]
JDict(items) == [type |-> "dict", items |-> items]

\* d[key] = value
SetItem(d, key, value) ==
    JDict([k \in DOMAIN d.items \cup {key} |-> IF k = key THEN value ELSE d.items[k]])

\* a mutant of LongerStripped: the strings are compared as they are given
LongerUnstripped(a, b) ==
    IF a.str = <<>> THEN b
    ELSE IF b.str = <<>> THEN a
    ELSE IF Len(b.str) >= Len(a.str) THEN b ELSE a

\* lines 221-228: of two strings, the one that is longer once stripped
LongerStripped(a, b) ==
    LET a2 == strip(a.str)
        b2 == strip(b.str)
    IN  IF a2 = <<>> THEN b
        ELSE IF b2 = <<>> THEN a
        ELSE IF Len(b2) >= Len(a2) THEN b ELSE a

\* a mutant of PyEq: no two items are equal
PyEqNever(x, y) == FALSE

\* x == y of Python on two JSON values: lists and dicts are compared item by
\* item, and True equals 1 and False equals 0
RECURSIVE PyEq(_, _)
PyEq(x, y) ==
    IF x.type = "list" /\ y.type = "list"
    THEN /\ Len(x.items) = Len(y.items)
         /\ \A i \in DOMAIN x.items : PyEq(x.items[i], y.items[i])
    ELSE IF x.type = "dict" /\ y.type = "dict"
    THEN /\ DOMAIN x.items = DOMAIN y.items
         /\ \A k \in DOMAIN x.items : PyEq(x.items[k], y.items[k])
    ELSE IF x.type = "bool" /\ y.type = "int"
    THEN y.int = (IF x.bool THEN 1 ELSE 0)
    ELSE IF x.type = "int" /\ y.type = "bool"
    THEN x.int = (IF y.bool THEN 1 ELSE 0)
    ELSE x.type = y.type /\ x = y

\* lines 215-220: the items of b that are not in out yet are appended
RECURSIVE AppendMissing(_, _)
AppendMissing(out, b) ==
    IF b = <<>> THEN out
    ELSE AppendMissing(IF \E i \in DOMAIN out : PyEq(out[i], b[1])
                       THEN out ELSE Append(out, b[1]),
                       Tail(b))

\* lines 205-229
RECURSIVE _deep_merge(_, _)
_deep_merge(a, b) ==
    IF a.type = "null" THEN b
    ELSE IF b.type = "null" THEN a
    ELSE IF a.type = "dict" /\ b.type = "dict"
    THEN JDict([k \in DOMAIN a.items \cup DOMAIN b.items |->
                   IF k \in DOMAIN b.items
                   THEN _deep_merge(IF k \in DOMAIN a.items THEN a.items[k] ELSE JNull,
                                    b.items[k])
                   ELSE a.items[k]])
    ELSE IF a.type = "list" /\ b.type = "list"
    THEN JList(AppendMissing(a.items, b.items))
    ELSE IF a.type = "str" /\ b.type = "str"
    THEN LongerStripped(a, b)
    ELSE b

(***************************************************************************)
(* json.loads of the standard library, as _robust_json_loads calls it      *)
(* (line 198), on texts without fractions, exponents, NaN, Infinity and    *)
(* \u escapes: objects, arrays, strings, integers, true, false and null.   *)
(***************************************************************************)
\* the outcome of decoding at a position: the value and the position after it
Decoded(value, end) == [ok |-> TRUE, value |-> value, end |-> end]
NotDecoded == [ok |-> FALSE]

\* the whitespace between tokens
RECURSIVE SkipWhitespace(_, _)
SkipWhitespace(s, i) ==
    IF i <= Len(s) /\ s[i] \in {" ", "\t", "\n", "\r"} THEN SkipWhitespace(s, i + 1)
    ELSE i

\* the characters of s as one string (a key of a dict)
RECURSIVE Str(_)
Str(s) == IF s = <<>> THEN "" ELSE s[1] \o Str(Tail(s))

\* the character a backslash escape stands for, <<>> if it is no escape;
\* "u0008" is the backspace
Unescaped(c) ==
    CASE c = "\"" -> <<"\"">>
      [] c = "\\" -> <<"\\">>
      [] c = "/"  -> <<"/">>
      [] c = "b"  -> <<"u0008">>
      [] c = "f"  -> <<"\f">>
      [] c = "n"  -> <<"\n">>
      [] c = "r"  -> <<"\r">>
      [] c = "t"  -> <<"\t">>
      [] OTHER    -> <<>>

\* a string from the character after its opening quote on; a control
\* character may not stand in it unescaped
RECURSIVE scanstring(_, _, _)
scanstring(s, i, chars) ==
    IF i > Len(s) THEN NotDecoded
    ELSE IF s[i] = "\"" THEN Decoded(chars, i + 1)
    ELSE IF s[i] = "\\"
    THEN IF i + 1 > Len(s) \/ Unescaped(s[i + 1]) = <<>> THEN NotDecoded
         ELSE scanstring(s, i + 2, chars \o Unescaped(s[i + 1]))
    ELSE IF s[i] \in {"\n", "\r", "\t", "\f", "u0008"} THEN NotDecoded
    ELSE scanstring(s, i + 1, Append(chars, s[i]))

\* an integer: -?(0|[1-9][0-9]*)
scan_number(s, i) ==
    LET digits == <<"0", "1", "2", "3", "4", "5", "6", "7", "8", "9">>
        IsDigit(c) == \E d \in DOMAIN digits : digits[d] = c
        ValueOf(c) == (CHOOSE d \in DOMAIN digits : digits[d] = c) - 1
        first == IF i <= Len(s) /\ s[i] = "-" THEN i + 1 ELSE i
        sign == IF first > i THEN -1 ELSE 1
        RECURSIVE Run(_, _)
        Run(j, n) ==
            IF j <= Len(s) /\ IsDigit(s[j]) THEN Run(j + 1, 10 * n + ValueOf(s[j]))
            ELSE Decoded(JInt(sign * n), j)
    IN  IF first > Len(s) \/ ~IsDigit(s[first]) THEN NotDecoded
        ELSE IF s[first] = "0" THEN Decoded(JInt(0), first + 1)
        ELSE Run(first, 0)

\* one value at position i
RECURSIVE scan_once(_, _)
RECURSIVE JSONObject(_, _, _)
RECURSIVE JSONArray(_, _, _)
scan_once(s, i) ==
    LET Literal(word) == i + Len(word) - 1 <= Len(s) /\ SubSeq(s, i, i + Len(word) - 1) = word
    IN  IF i > Len(s) THEN NotDecoded
        ELSE IF s[i] = "\""
        THEN LET r == scanstring(s, i + 1, <<>>)
             IN  IF r.ok THEN Decoded(JStr(r.value), r.end) ELSE NotDecoded
        ELSE IF s[i] = "{"
        THEN LET j == SkipWhitespace(s, i + 1)
             IN  IF j <= Len(s) /\ s[j] = "}"
                 THEN Decoded(JDict([k \in {} |-> JNull]), j + 1)
                 ELSE JSONObject(s, j, JDict([k \in {} |-> JNull]))
        ELSE IF s[i] = "["
        THEN LET j == SkipWhitespace(s, i + 1)
             IN  IF j <= Len(s) /\ s[j] = "]" THEN Decoded(JList(<<>>), j + 1)
                 ELSE JSONArray(s, j, <<>>)
        ELSE IF Literal(<<"n", "u", "l", "l">>) THEN Decoded(JNull, i + 4)
        ELSE IF Literal(<<"t", "r", "u", "e">>) THEN Decoded(JBool(TRUE), i + 4)
        ELSE IF Literal(<<"f", "a", "l", "s", "e">>) THEN Decoded(JBool(FALSE), i + 5)
        ELSE scan_number(s, i)

\* the pairs of an object from the key at position i on; a key that comes
\* again replaces the value it had
JSONObject(s, i, pairs) ==
    IF i > Len(s) \/ s[i] # "\"" THEN NotDecoded
    ELSE LET key == scanstring(s, i + 1, <<>>)
             colon == IF key.ok THEN SkipWhitespace(s, key.end) ELSE 0
             value == IF key.ok /\ colon <= Len(s) /\ s[colon] = ":"
                      THEN scan_once(s, SkipWhitespace(s, colon + 1))
                      ELSE NotDecoded
             next == IF value.ok THEN SkipWhitespace(s, value.end) ELSE 0
         IN  IF ~value.ok \/ next > Len(s) THEN NotDecoded
             ELSE IF s[next] = "}"
             THEN Decoded(SetItem(pairs, Str(key.value), value.value), next + 1)
             ELSE IF s[next] = ","
             THEN JSONObject(s, SkipWhitespace(s, next + 1),
                             SetItem(pairs, Str(key.value), value.value))
             ELSE NotDecoded

\* the items of an array from the value at position i on
JSONArray(s, i, items) ==
    LET value == scan_once(s, i)
        next == IF value.ok THEN SkipWhitespace(s, value.end) ELSE 0
    IN  IF ~value.ok \/ next > Len(s) THEN NotDecoded
        ELSE IF s[next] = "]" THEN Decoded(JList(Append(items, value.value)), next + 1)
        ELSE IF s[next] = ","
        THEN JSONArray(s, SkipWhitespace(s, next + 1), Append(items, value.value))
        ELSE NotDecoded

\* json.loads(s): <<value>>, or <<>> when it raises; nothing but whitespace may
\* stand before and after the value
json_loads(s) ==
    LET r == scan_once(s, SkipWhitespace(s, 1))
    IN  IF r.ok /\ SkipWhitespace(s, r.end) = Len(s) + 1 THEN <<r.value>> ELSE <<>>

(***************************************************************************)
(* _clean_json_like, _balanced_json_substrings, _extract_json_candidates   *)
(* and _robust_json_loads (135-203).                                       *)
(***************************************************************************)
\* line 145: start_positions[:30], scaled to the texts of the model
MaxStartPositions == 3

\* the position of the first character from i on that is not whitespace
RECURSIVE SkipSpace(_, _)
SkipSpace(s, i) == IF i <= Len(s) /\ IsSpace(s[i]) THEN SkipSpace(s, i + 1) ELSE i

\* line 137: re.sub(r",\s*([}\]])", r"\1", text)
RECURSIVE RemoveTrailingCommas(_)
RemoveTrailingCommas(s) ==
    IF s = <<>> THEN <<>>
    ELSE LET j == SkipSpace(s, 2)
         IN  IF s[1] = "," /\ j <= Len(s) /\ s[j] \in {"}", "]"}
             THEN <<s[j]>> \o RemoveTrailingCommas(SubSeq(s, j + 1, Len(s)))
             ELSE <<s[1]>> \o RemoveTrailingCommas(Tail(s))

\* lines 135-138
_clean_json_like(text) == strip(RemoveTrailingCommas(strip(text)))

\* lines 146-149: the scanner at a start position
ScanStart(text, start_char, end_char, start) ==
    [pc |-> "scan", text |-> text, start_char |-> start_char, end_char |-> end_char,
     start |-> start, i |-> start, depth |-> 0, in_string |-> FALSE,
     escape |-> FALSE, frag |-> <<>>]

\* a mutant of ScanStep: a quote preceded by a backslash closes the string
ScanStepNoEscape(f) ==
    IF f.i > Len(f.text) THEN [f EXCEPT !.pc = "done"]
    ELSE LET c == f.text[f.i]
             next == [f EXCEPT !.i = @ + 1]
         IN  IF f.in_string
             THEN IF c = "\"" THEN [next EXCEPT !.in_string = FALSE] ELSE next
             ELSE IF c = "\"" THEN [next EXCEPT !.in_string = TRUE]
             ELSE IF c = f.start_char THEN [next EXCEPT !.depth = @ + 1]
             ELSE IF c = f.end_char
             THEN IF f.depth = 1
                  THEN [f EXCEPT !.pc = "done", !.depth = 0,
                                 !.frag = <<strip(SubSeq(f.text, f.start, f.i))>>]
                  ELSE [next EXCEPT !.depth = @ - 1]
             ELSE next

\* lines 149-169: one pass of the loop over the characters; frag is <<>> until
\* a candidate is found, and the scanner stays on the character that ends it
ScanStep(f) ==
    IF f.i > Len(f.text) THEN [f EXCEPT !.pc = "done"]
    ELSE LET c == f.text[f.i]
             next == [f EXCEPT !.i = @ + 1]
         IN  IF f.in_string
             THEN IF f.escape THEN [next EXCEPT !.escape = FALSE]
                  ELSE IF c = "\\" THEN [next EXCEPT !.escape = TRUE]
                  ELSE IF c = "\"" THEN [next EXCEPT !.in_string = FALSE]
                  ELSE next
             ELSE IF c = "\"" THEN [next EXCEPT !.in_string = TRUE]
             ELSE IF c = f.start_char THEN [next EXCEPT !.depth = @ + 1]
             ELSE IF c = f.end_char
             THEN IF f.depth - 1 = 0
                  THEN LET frag == strip(SubSeq(f.text, f.start, f.i))
                       IN  [f EXCEPT !.pc = "done", !.depth = 0,
                                     !.frag = IF frag # <<>> THEN <<frag>> ELSE <<>>]
                  ELSE [next EXCEPT !.depth = @ - 1]
             ELSE next

\* lines 149-169: the loop to its end
RECURSIVE Scan(_)
Scan(f) == IF f.pc = "done" THEN f ELSE Scan(ScanStep(f))

\* line 144: the positions of ch in text
Positions(text, ch) ==
    SelectSeq([i \in 1..Len(text) |-> i], LAMBDA i : text[i] = ch)

\* lines 140-171: the candidates that open with a brace, then those that open
\* with a bracket
_balanced_json_substrings(text) ==
    LET For(start_char, end_char) ==
            LET all == Positions(text, start_char)
                kept == SubSeq(all, 1, Min2(Len(all), MaxStartPositions))
            IN  join(<<>>, [k \in DOMAIN kept |->
                               Scan(ScanStart(text, start_char, end_char, kept[k])).frag])
    IN  For("{", "}") \o For("[", "]")

\* line 177: re.findall of a fence, an optional tag json in either case, the
\* block and the next fence: what stands between the two fences, without the
\* tag and the whitespace around it; the backquote is "u0060"
RECURSIVE FencedBlocks(_, _)
FencedBlocks(s, from) ==
    LET fence == <<"u0060", "u0060", "u0060">>
        open == Find(s, fence, from)
        tagged == /\ open + 6 <= Len(s)
                  /\ lower(SubSeq(s, open + 3, open + 6)) = <<"j", "s", "o", "n">>
        first == SkipSpace(s, IF tagged THEN open + 7 ELSE open + 3)
        close == Find(s, fence, first)
    IN  IF open = 0 THEN <<>>
        ELSE IF close = 0 THEN FencedBlocks(s, open + 1)
        ELSE <<rstrip(SubSeq(s, first, close - 1))>> \o FencedBlocks(s, close + 3)

\* a mutant of _extract_json_candidates: the whole text comes first
_extract_json_candidates_whole_first(text) ==
    LET t == _strip_think(text)
        fenced == SelectSeq([k \in DOMAIN FencedBlocks(t, 1) |->
                                strip(FencedBlocks(t, 1)[k])],
                            LAMBDA block : block # <<>>)
        raw == strip(t)
    IN  (IF raw # <<>> /\ raw[1] \in {"{", "["} THEN <<raw>> ELSE <<>>)
            \o fenced \o _balanced_json_substrings(t)

\* lines 173-188
_extract_json_candidates(text) ==
    LET t == _strip_think(text)
        fenced == SelectSeq([k \in DOMAIN FencedBlocks(t, 1) |->
                                strip(FencedBlocks(t, 1)[k])],
                            LAMBDA block : block # <<>>)
        raw == strip(t)
    IN  fenced \o _balanced_json_substrings(t)
            \o (IF raw # <<>> /\ raw[1] \in {"{", "["} THEN <<raw>> ELSE <<>>)

\* how a call ends
Returned(value) == [raised |-> FALSE, value |-> value]
Raised(error) == [raised |-> TRUE, error |-> error]

\* what str(e) of the error raised is when there is no candidate at all, and
\* when the last candidate tried is not JSON (one text stands for the
\* messages of json.loads)
NoCandidateError == <<"n", "o", " ", "J", "S", "O", "N">>
DecodeError == <<"b", "a", "d", " ", "J", "S", "O", "N">>

\* lines 191-203: the candidates are tried in turn; last_err is <<>> or <<e>>
RECURSIVE TryCandidates(_, _)
TryCandidates(candidates, last_err) ==
    IF candidates = <<>>
    THEN Raised(IF last_err # <<>> THEN last_err[1] ELSE NoCandidateError)
    ELSE LET cand == _clean_json_like(candidates[1])
         IN  IF cand = <<>> THEN TryCandidates(Tail(candidates), last_err)
             ELSE IF json_loads(cand) # <<>> THEN Returned(json_loads(cand)[1])
             ELSE TryCandidates(Tail(candidates), <<DecodeError>>)

\* lines 190-203: the value read from the text, or the error raised
_robust_json_loads(text) == TryCandidates(_extract_json_candidates(text), <<>>)

(***************************************************************************)
(* One scan of _balanced_json_substrings, a step for each character, on    *)
(* every short text over braces, quotes, backslashes and a letter, and on  *)
(* sample texts with brackets.                                             *)
(***************************************************************************)
\* longest text scanned character by character
MaxScanLen == 5

ScanTexts ==
    SeqsUpTo({"{", "}", "\"", "\\", "a"}, MaxScanLen)
        \cup {<<"[", "\"", "]", "\"", "]">>,
              <<"[", "[", "a", "]", "\"", "\\", "\"", "]", "\"", "]", "]">>,
              <<"{", "[", "}", "]">>,
              <<"[", "{", "\"", "[", "\\", "\\", "\"", "]", "}", "]">>}

InitScan ==
    /\ arg_nodes = <<>>
    /\ arg_edges = <<>>
    /\ ret_order = <<>>
    /\ InitExecutor
    /\ TextIdle
    /\ merge = NoCall
    /\ loads = NoCall
    /\ \E text \in ScanTexts, pair \in {<<"{", "}">>, <<"[", "]">>} :
           LET all == Positions(text, pair[1])
           IN  \E k \in 1..Min2(Len(all), MaxStartPositions) :
                   scan = ScanStart(text, pair[1], pair[2], all[k])
    /\ infer = NoCall

\* lines 149-169: the scanner reads one character, or finds none left
ScanCharacter ==
    /\ scan.pc = "scan"
    /\ scan' = ScanStep(scan)
    /\ UNCHANGED <<orderVars, execVars, textVars, merge, loads, infer>>

NextScan == ScanCharacter

SpecScan == InitScan /\ [][NextScan]_vars

(***************************************************************************)
(* _robust_json_loads called alone on texts put together from pieces: a    *)
(* fence, a tag, objects and arrays with and without a trailing comma,     *)
(* parts of them, prose and reasoning.                                     *)
(***************************************************************************)
\* most pieces a text handed to _robust_json_loads is made of
MaxLoadsPieces == 4

LoadsPieces ==
    {<<"u0060", "u0060", "u0060">>,
     <<"J", "s", "o", "n", "\n">>,
     <<"{", "\"", "a", "\"", ":", "1", ",", " ", "}">>,
     <<"[", "1", ",", "]">>,
     <<"{", "\"", "k", "\"", ":">>,
     <<"\"", "}", "\"">>,
     <<"}">>,
     <<"a", " ">>,
     <<"[">>,
     <<"]">>,
     ThinkOpen \o <<"{", "}">> \o ThinkClose}

LoadsTexts == {join(<<>>, parts) : parts \in SeqsUpTo(LoadsPieces, MaxLoadsPieces)}

InitLoads ==
    /\ arg_nodes = <<>>
    /\ arg_edges = <<>>
    /\ ret_order = <<>>
    /\ InitExecutor
    /\ TextIdle
    /\ merge = NoCall
    /\ loads \in [pc : {"call"}, text : LoadsTexts]
    /\ scan = NoCall
    /\ infer = NoCall

\* lines 190-203: the call returns a value or raises
CallRobustJsonLoads ==
    /\ loads.pc = "call"
    /\ loads' = [pc |-> "done", text |-> loads.text, ret |-> _robust_json_loads(loads.text)]
    /\ UNCHANGED <<orderVars, execVars, textVars, merge, scan, infer>>

NextLoads == CallRobustJsonLoads

SpecLoads == InitLoads /\ [][NextLoads]_vars

(***************************************************************************)
(* _deep_merge (205-229) on objects: a list or a dict is an object of the  *)
(* heap and a value names it by reference, so that an assignment to an     *)
(* object is seen through every reference to it.                           *)
(***************************************************************************)
\* longest list among the arguments of _deep_merge called alone
MaxListLen == 2

Ref(n) == [type |-> "ref", ref |-> n]

IsRefTo(h, c, type) == c.type = "ref" /\ h[c.ref].type = type

\* the elements of a finite set in some order
RECURSIVE SetToSeq(_)
SetToSeq(S) ==
    IF S = {} THEN <<>>
    ELSE LET x == CHOOSE y \in S : TRUE IN <<x>> \o SetToSeq(S \ {x})

\* the value v built on heap h: the heap after it and the cell that holds v
RECURSIVE Alloc(_, _)
RECURSIVE AllocItems(_, _, _)
RECURSIVE AllocValues(_, _, _, _)
Alloc(h, v) ==
    IF v.type = "list"
    THEN LET r == AllocItems(h, v.items, <<>>)
         IN  [heap |-> Append(r.heap, JList(r.cells)), cell |-> Ref(Len(r.heap) + 1)]
    ELSE IF v.type = "dict"
    THEN LET r == AllocValues(h, v.items, SetToSeq(DOMAIN v.items), <<>>)
         IN  [heap |-> Append(r.heap, JDict(r.cells)), cell |-> Ref(Len(r.heap) + 1)]
    ELSE [heap |-> h, cell |-> v]

AllocItems(h, items, cells) ==
    IF items = <<>> THEN [heap |-> h, cells |-> cells]
    ELSE LET r == Alloc(h, items[1])
         IN  AllocItems(r.heap, Tail(items), Append(cells, r.cell))

AllocValues(h, items, keys, cells) ==
    IF keys = <<>> THEN [heap |-> h, cells |-> cells]
    ELSE LET r == Alloc(h, items[keys[1]])
         IN  AllocValues(r.heap, items, Tail(keys),
                         [k \in DOMAIN cells \cup {keys[1]} |->
                             IF k = keys[1] THEN r.cell ELSE cells[k]])

\* the value a cell holds
RECURSIVE Deref(_, _)
Deref(h, c) ==
    IF c.type # "ref" THEN c
    ELSE IF h[c.ref].type = "list"
    THEN JList([i \in DOMAIN h[c.ref].items |-> Deref(h, h[c.ref].items[i])])
    ELSE JDict([k \in DOMAIN h[c.ref].items |-> Deref(h, h[c.ref].items[k])])

\* a mutant of Copy: the object itself instead of a copy of it
CopyAliased(h, ref) == [heap |-> h, ref |-> ref]

\* lines 210 and 216: dict(a), list(a): a new object with the items of the old
Copy(h, ref) == [heap |-> Append(h, h[ref]), ref |-> Len(h) + 1]

\* a mutant of AppendMissingTo: an item of b that is not in a is appended every
\* time it occurs in b
AppendEachMissingTo(h, out, items) ==
    LET a == h[out].items
        missing == SelectSeq(items, LAMBDA x :
                       ~\E i \in DOMAIN a : PyEq(Deref(h, a[i]), Deref(h, x)))
    IN  [h EXCEPT ![out] = JList(a \o missing)]

\* lines 217-219: the items of b that are not in out yet are appended to out
RECURSIVE AppendMissingTo(_, _, _)
AppendMissingTo(h, out, items) ==
    IF items = <<>> THEN h
    ELSE AppendMissingTo(
             IF \E i \in DOMAIN h[out].items :
                    PyEq(Deref(h, h[out].items[i]), Deref(h, items[1]))
             THEN h
             ELSE [h EXCEPT ![out] = JList(Append(@.items, items[1]))],
             out, Tail(items))

\* lines 205-229: the heap after the call and the cell returned
RECURSIVE DeepMerge(_, _, _)
RECURSIVE MergeItems(_, _, _, _)
DeepMerge(h, a, b) ==
    IF a.type = "null" THEN [heap |-> h, cell |-> b]
    ELSE IF b.type = "null" THEN [heap |-> h, cell |-> a]
    ELSE IF IsRefTo(h, a, "dict") /\ IsRefTo(h, b, "dict")
    THEN LET out == Copy(h, a.ref)
         IN  MergeItems(out.heap, out.ref, b.ref, SetToSeq(DOMAIN h[b.ref].items))
    ELSE IF IsRefTo(h, a, "list") /\ IsRefTo(h, b, "list")
    THEN LET out == Copy(h, a.ref)
         IN  [heap |-> AppendMissingTo(out.heap, out.ref, out.heap[b.ref].items),
              cell |-> Ref(out.ref)]
    ELSE IF a.type = "str" /\ b.type = "str"
    THEN [heap |-> h, cell |-> LongerStripped(a, b)]
    ELSE [heap |-> h, cell |-> b]

\* lines 211-213: for k, v in b.items(): out[k] = _deep_merge(out.get(k), v)
MergeItems(h, out, b, keys) ==
    IF keys = <<>> THEN [heap |-> h, cell |-> Ref(out)]
    ELSE LET k == keys[1]
             got == IF k \in DOMAIN h[out].items THEN h[out].items[k] ELSE JNull
             r == DeepMerge(h, got, h[b].items[k])
         IN  MergeItems([r.heap EXCEPT ![out] = SetItem(@, k, r.cell)],
                        out, b, Tail(keys))

\* the arguments: scalars, strings with and without surrounding whitespace,
\* every short list and one with True for an item and another item twice,
\* dicts over two keys, and dicts that hold dicts
MergeValues ==
    LET strings == {<<>>, <<" ">>, <<"a">>, <<"a", "b">>, <<" ", "a", " ", " ">>}
        scalars == {JNull, JInt(1), JInt(2), JBool(TRUE)} \cup {JStr(x) : x \in strings}
        items == {JNull, JInt(1), JInt(2), JBool(TRUE), JStr(<<"a">>), JList(<<JInt(1)>>)}
        lists == {JList(x) : x \in SeqsUpTo(items, MaxListLen)}
                     \cup {JList(<<JBool(TRUE), JInt(2), JInt(2)>>)}
        DictsOver(values) ==
            {JDict(f) : f \in UNION {[ks -> values] : ks \in SUBSET {"k", "m"}}}
        flat == DictsOver({JNull, JInt(1), JStr(<<"a">>), JStr(<<"a", "b">>),
                           JStr(<<" ">>), JList(<<JInt(1)>>),
                           JList(<<JInt(1), JInt(1)>>), JList(<<JInt(2), JInt(1)>>)})
        nested == DictsOver({JNull, JStr(<<"a">>),
                             JDict([k \in {"k"} |-> JInt(1)]),
                             JDict([k \in {"m"} |-> JList(<<JInt(1), JInt(1)>>)])})
    IN  scalars \cup lists \cup flat \cup nested

\* the frame of a call _deep_merge(x, y) on two objects
MergeArguments(x, y) ==
    LET a == Alloc(<<>>, x)
        b == Alloc(a.heap, y)
    IN  [pc |-> "call", heap |-> b.heap, a |-> a.cell, b |-> b.cell]

\* the frame of a call _deep_merge(x, x) on one object
MergeArgument(x) ==
    LET a == Alloc(<<>>, x)
    IN  [pc |-> "call", heap |-> a.heap, a |-> a.cell, b |-> a.cell]

InitMerge ==
    /\ arg_nodes = <<>>
    /\ arg_edges = <<>>
    /\ ret_order = <<>>
    /\ InitExecutor
    /\ TextIdle
    /\ merge \in {MergeArguments(x, y) : x, y \in MergeValues}
                    \cup {MergeArgument(x) : x \in MergeValues}
    /\ loads = NoCall
    /\ scan = NoCall
    /\ infer = NoCall

\* the call returns: the heap before it is kept beside the heap after it
CallDeepMerge ==
    /\ merge.pc = "call"
    /\ LET r == DeepMerge(merge.heap, merge.a, merge.b)
       IN  merge' = [pc |-> "done", before |-> merge.heap, heap |-> r.heap,
                     a |-> merge.a, b |-> merge.b, ret |-> r.cell]
    /\ UNCHANGED <<orderVars, execVars, textVars, loads, scan, infer>>

NextMerge == CallDeepMerge

SpecMerge == InitMerge /\ [][NextMerge]_vars

(***************************************************************************)
(* _infer_template_type (360-389) and the lines of                         *)
(* _structured_extractor_logic that call it (1176-1181). A character that  *)
(* is not ASCII is the string that names its code point: "u7b80" is U+7B80.*)
(***************************************************************************)
\* most pieces a text handed to the extractor is made of
MaxInferPieces == 3
\* line 1181: text[:20000], scaled to the texts of the model
InferSliceChars == 6

\* lines 362-369: the archetypes in the order of the score table
Archetypes == <<"resume", "report", "meeting", "contract", "proposal", "invoice">>

\* lines 370-387: the keywords of each archetype
Keywords ==
    [resume |->
        <<<<"u7b80", "u5386">>,
          <<"u6559", "u80b2", "u80cc", "u666f">>,
          <<"u5de5", "u4f5c", "u7ecf", "u5386">>,
          <<"u81ea", "u6211", "u8bc4", "u4ef7">>,
          <<"u6280", "u80fd">>>>,
     report |->
        <<<<"u9879", "u76ee", "u6982", "u8ff0">>,
          <<"u9879", "u76ee", "u76ee", "u6807">>,
          <<"u5b9e", "u65bd", "u8fc7", "u7a0b">>,
          <<"u4e3b", "u8981", "u6210", "u679c">>,
          <<"u603b", "u7ed3">>,
          <<"u62a5", "u544a">>>>,
     meeting |->
        <<<<"u4f1a", "u8bae", "u7eaa", "u8981">>,
          <<"u53c2", "u4f1a">>,
          <<"u4f1a", "u8bae", "u65f6", "u95f4">>,
          <<"u8bae", "u9898">>,
          <<"u51b3", "u8bae">>,
          <<"u884c", "u52a8", "u9879">>>>,
     contract |->
        <<<<"u5408", "u540c">>,
          <<"u7532", "u65b9">>,
          <<"u4e59", "u65b9">>,
          <<"u8fdd", "u7ea6">>,
          <<"u4e89", "u8bae", "u89e3", "u51b3">>,
          <<"u4ed8", "u6b3e">>>>,
     proposal |->
        <<<<"u63d0", "u6848">>,
          <<"u9879", "u76ee", "u80cc", "u666f">>,
          <<"u5b9e", "u65bd", "u65b9", "u6848">>,
          <<"u9884", "u7b97">>,
          <<"u98ce", "u9669", "u8bc4", "u4f30">>,
          <<"u65f6", "u95f4", "u8ba1", "u5212">>>>,
     invoice |->
        <<<<"u53d1", "u7968">>,
          <<"u91d1", "u989d">>,
          <<"u7a0e">>,
          <<"u5f00", "u7968">>,
          <<"u5546", "u54c1", "/", "u670d", "u52a1">>>>]

\* lines 370-387: the number of keywords of each archetype that occur in t
Score(t) ==
    [a \in Range(Archetypes) |->
        Cardinality({i \in DOMAIN Keywords[a] : Find(t, Keywords[a][i], 1) # 0})]

\* line 388: max(score.items(), key=...): the first archetype of the table that
\* no other outscores
Best(score) ==
    Archetypes[CHOOSE i \in DOMAIN Archetypes :
                   /\ \A j \in DOMAIN Archetypes :
                          score[Archetypes[j]] <= score[Archetypes[i]]
                   /\ \A j \in 1..(i - 1) :
                          score[Archetypes[j]] < score[Archetypes[i]]]

\* lines 360-389
_infer_template_type(text) ==
    LET score == Score(lower(text))
        best == Best(score)
    IN  IF score[best] > 0 THEN best ELSE "default"

\* the pieces of the texts: keywords of several archetypes, some running into
\* one another, a capital letter and a newline
InferPieces ==
    {Keywords.resume[1], Keywords.resume[5], Keywords.report[6],
     Keywords.meeting[3], Keywords.meeting[4], Keywords.meeting[5],
     Keywords.contract[1], Keywords.contract[5], Keywords.invoice[3],
     <<"A", "\n">>}

InferTexts == {join(<<>>, parts) : parts \in SeqsUpTo(InferPieces, MaxInferPieces)}

\* the template_type argument: None, "auto", or a type that is given
InferTemplateTypes == {"", "auto", "contract"}

InitInfer ==
    /\ arg_nodes = <<>>
    /\ arg_edges = <<>>
    /\ ret_order = <<>>
    /\ InitExecutor
    /\ TextIdle
    /\ merge = NoCall
    /\ loads = NoCall
    /\ scan = NoCall
    /\ infer \in [pc : {"call"}, text : InferTexts, template_type : InferTemplateTypes]

\* lines 1177-1181: the text is normalized, and its type inferred from the first
\* characters when none is given
StructuredExtractorInfers ==
    /\ infer.pc = "call"
    /\ LET text == _normalize_text(infer.text)
           given == IF infer.template_type = "" THEN "auto" ELSE infer.template_type
       IN  infer' = [pc |-> "done",
                     text |-> text,
                     template_type |-> infer.template_type,
                     inferred |-> IF given = "auto"
                                  THEN _infer_template_type(
                                           SubSeq(text, 1, Min2(Len(text), InferSliceChars)))
                                  ELSE given]
    /\ UNCHANGED <<orderVars, execVars, textVars, merge, loads, scan>>

NextInfer == StructuredExtractorInfers

SpecInfer == InitInfer /\ [][NextInfer]_vars

(***************************************************************************)
(* The completion service and AIClient.generate_completion (43-66).        *)
(***************************************************************************)
\* a text, and the value json reading finds in it (<<>> if it finds none)
Text(text, json) == [text |-> text, json |-> json]

AIErrorText == <<"A", "I", " ", "E", "r", "r", "o", "r", ":", " ", "e">>
MockText == <<"M", "o", "c", "k", " ", "A", "I">>

\* the texts the service answers with, each with its reading: reasoning
\* only; prose; reasoning, then a JSON object; a JSON object between blank
\* lines; a JSON list
ServiceTexts ==
    {Text(ThinkOpen \o <<"b">> \o ThinkClose, <<>>),
     Text(<<"a">>, <<>>),
     Text(ThinkOpen \o <<"b">> \o ThinkClose
              \o <<"{", "\"", "t", "i", "t", "l", "e", "\"", ":", "\"", "b", " ", "\"", "}">>,
          <<JDict([k \in {"title"} |-> JStr(<<"b", " ">>)])>>),
     Text(<<"\n", "{", "\"", "t", "i", "t", "l", "e", "\"", ":", "\"", "a", "\"", ",",
            "\"", "s", "k", "i", "l", "l", "s", "\"", ":", "[", "1", "]", "}", "\r", "\n">>,
          <<JDict([k \in {"title", "skills"} |->
                      IF k = "title" THEN JStr(<<"a">>) ELSE JList(<<JInt(1)>>)])>>),
     Text(<<"[", "1", "]">>, <<JList(<<JInt(1)>>)>>)}

\* what becomes of one request: no key is configured, the service answers
\* with a status of 400 and over, the request raises, or the service answers
Outcome(kind, content) == [kind |-> kind, content |-> content]

ServiceOutcomes ==
    {Outcome("missing_key", Text(<<>>, <<>>)),
     Outcome("status_error", Text(<<>>, <<>>)),
     Outcome("exception", Text(<<>>, <<>>))}
        \cup {Outcome("ok", t) : t \in ServiceTexts}

\* the outcomes a summarizing call tells apart: a text that is empty once
\* stripped, a short one, long ones
SummaryOutcomes ==
    {o \in ServiceOutcomes :
        \/ o.kind = "missing_key"
        \/ o.kind = "ok" /\ o.content.json = <<>>
        \/ o.kind = "ok" /\ o.content.json # <<>> /\ o.content.json[1].type = "list"}

\* the outcomes an extracting call tells apart: no JSON in the text, an object
\* read from it, a value that is not an object
ExtractOutcomes ==
    {o \in ServiceOutcomes :
        \/ o.kind \in {"status_error", "exception"}
        \/ o.kind = "ok" /\ o.content.json # <<>>}

\* a mutant of generate_completion: the exception of the request is not caught
generate_completion_uncaught(o) ==
    IF o.kind = "missing_key" THEN Returned(Text(MockText, <<>>))
    ELSE IF o.kind = "status_error" THEN Returned(Text(AIErrorText, <<>>))
    ELSE IF o.kind = "exception" THEN Raised(AIErrorText)
    ELSE Returned(o.content)

\* lines 43-66: a text whatever becomes of the request
generate_completion(o) ==
    IF o.kind = "missing_key" THEN Returned(Text(MockText, <<>>))
    ELSE IF o.kind = "status_error" THEN Returned(Text(AIErrorText, <<>>))
    ELSE IF o.kind = "exception" THEN Returned(Text(AIErrorText, <<>>))
    ELSE Returned(o.content)

\* lines 132-133, on a text with its reading: reading removes the reasoning
\* itself (line 174), so the text without it reads the same
StripThink(t) == Text(_strip_think(t.text), t.json)

\* lines 190-203, on a text with its reading; a text without one has no
\* brace and no bracket
RobustJsonLoads(t) ==
    IF t.json = <<>> THEN Raised(NoCandidateError) ELSE Returned(t.json[1])

\* the reading each text carries is what lines 190-203 find in it, before and
\* after _strip_think
ReadingsAgree ==
    \A t \in ServiceTexts \cup {Text(MockText, <<>>), Text(AIErrorText, <<>>)} :
        /\ RobustJsonLoads(t) = _robust_json_loads(t.text)
        /\ RobustJsonLoads(StripThink(t)) = _robust_json_loads(_strip_think(t.text))

(***************************************************************************)
(* _hierarchical_summarize (231-266), one action for each completion call. *)
(***************************************************************************)
\* longest text and largest target_chars handed to the summarizer called alone
MaxSummarizeLen == 3
MaxTarget == 3

\* lines 232-242: the frame up to the first completion call, or the return
SummarizeEnter(text, target_chars) ==
    LET normalized == _normalize_text(text)
        chunk_size == _env_int("AI_CHUNK_SIZE_CHARS", 8000)
        overlap == _env_int("AI_CHUNK_OVERLAP_CHARS", 400)
        max_chunks == _env_int("AI_MAX_CHUNKS", 8)
        frame == [pc |-> "done", text |-> text, target_chars |-> target_chars,
                  max_chunks |-> max_chunks, chunks |-> <<>>, idx |-> 1,
                  summaries |-> <<>>, merged |-> <<>>, completions |-> <<>>,
                  raised |-> FALSE, ret |-> <<>>]
    IN  IF normalized = <<>> THEN frame
        ELSE IF Len(normalized) <= target_chars THEN [frame EXCEPT !.ret = normalized]
        ELSE LET chunks == _split_text_into_chunks(normalized, chunk_size,
                                                   overlap, max_chunks)
             IN  [frame EXCEPT !.chunks = chunks,
                               !.pc = IF chunks = <<>> THEN "done" ELSE "chunk"]

\* a mutant of SummariesMerged: the compression call is made whatever the length
SummariesMergedAlwaysCompress(f) ==
    [f EXCEPT !.merged = _normalize_text(join(<<"\n">>, f.summaries)),
              !.pc = "compress"]

\* lines 257-259: after the last chunk, the summaries joined; returned if short
SummariesMerged(f) ==
    LET merged == _normalize_text(join(<<"\n">>, f.summaries))
    IN  IF Len(merged) <= f.target_chars
        THEN [f EXCEPT !.merged = merged, !.ret = merged, !.pc = "done"]
        ELSE [f EXCEPT !.merged = merged, !.pc = "compress"]

\* the exception of a call leaves the function
Propagated(f) == [f EXCEPT !.pc = "done", !.raised = TRUE]

\* lines 254-259: generate_completion is called for chunk idx and ends as c
ChunkSummarized(f, c) ==
    IF c.raised THEN Propagated(f)
    ELSE LET s == _normalize_text(_strip_think(c.value.text))
             stored == [f EXCEPT
                           !.summaries = IF s # <<>> THEN Append(@, s) ELSE @,
                           !.completions = Append(@, [call |-> "chunk", idx |-> f.idx,
                                                      input |-> f.chunks[f.idx],
                                                      response |-> c.value]),
                           !.idx = @ + 1]
         IN  IF stored.idx > Len(stored.chunks) THEN SummariesMerged(stored)
             ELSE stored

\* lines 265-266: generate_completion is called for the compression and ends as c
Compressed(f, c) ==
    IF c.raised THEN Propagated(f)
    ELSE [f EXCEPT !.completions = Append(@, [call |-> "compress", idx |-> 0,
                                              input |-> f.merged,
                                              response |-> c.value]),
                   !.ret = _normalize_text(_strip_think(c.value.text)),
                   !.pc = "done"]

\* lines 637-640: parse_ai_content_for_template gets the summary it waits for
SummaryReturned(p, f) ==
    IF p.pc = "summarize" /\ f.pc = "done"
    THEN IF f.raised THEN Propagated(p)
         ELSE [p EXCEPT !.pc = "direct", !.content_for_ai = f.ret]
    ELSE p

\* _hierarchical_summarize is called: lines 232-242
SummarizeCalled ==
    /\ summarize.pc = "call"
    /\ summarize' = SummarizeEnter(summarize.text, summarize.target_chars)
    /\ UNCHANGED <<orderVars, execVars, callVars, split, parse, env>>

\* line 254: generate_completion returns for a chunk
ChunkSummaryReturns ==
    /\ summarize.pc = "chunk"
    /\ \E o \in SummaryOutcomes :
           /\ summarize' = ChunkSummarized(summarize, generate_completion(o))
           /\ parse' = SummaryReturned(parse, summarize')
    /\ UNCHANGED <<orderVars, execVars, callVars, split, env>>

\* line 265: generate_completion returns for the compression prompt
CompressionReturns ==
    /\ summarize.pc = "compress"
    /\ \E o \in SummaryOutcomes :
           /\ summarize' = Compressed(summarize, generate_completion(o))
           /\ parse' = SummaryReturned(parse, summarize')
    /\ UNCHANGED <<orderVars, execVars, callVars, split, env>>

InitSummarize ==
    /\ arg_nodes = <<>>
    /\ arg_edges = <<>>
    /\ ret_order = <<>>
    /\ InitExecutor
    /\ CallIdle
    /\ split = NoCall
    /\ summarize \in [pc : {"call"},
                      text : SeqsUpTo(Chars, MaxSummarizeLen) \cup SampleTexts,
                      target_chars : 1..MaxTarget]
    /\ parse = NoCall
    /\ env \in Envs
    /\ ReadingsAgree

NextSummarize ==
    \/ SummarizeCalled
    \/ ChunkSummaryReturns
    \/ CompressionReturns

SpecSummarize == InitSummarize /\ [][NextSummarize]_vars

(***************************************************************************)
(* parse_ai_content_for_template (512-671), one action for each completion *)
(* call.                                                                   *)
(***************************************************************************)
\* longest content drawn character by character
MaxParseLen == 2
\* lines 663-664 cut the excerpt at 20000 and 5000 characters, the tail kept
\* for a content of over 25000: the same cuts, scaled to the short contents
ExcerptHeadChars == 3
ExcerptTailChars == 1
ExcerptTailOver == ExcerptHeadChars + ExcerptTailChars

\* line 666: "\n\n...[TRUNCATED]...\n\n"
TruncatedMark ==
    <<"\n", "\n", ".", ".", ".", "[", "T", "R", "U", "N", "C", "A", "T", "E", "D",
      "]", ".", ".", ".", "\n", "\n">>

\* lines 514-593: the template types that have a prompt
TemplatePrompts == {"resume", "report", "meeting", "contract", "proposal"}

\* the types the function is called with: one with a prompt, and the one
\* _infer_template_type (360-389) falls back to, which has none
TemplateTypes == {"resume", "default"}

ParseTexts == SeqsUpTo(Chars, MaxParseLen) \cup SampleTexts

\* lines 663-671: the result when neither response could be read
ExcerptResult(content, error) ==
    LET excerpt_head == SubSeq(content, 1, Min2(Len(content), ExcerptHeadChars))
        excerpt_tail == IF Len(content) > ExcerptTailOver
                        THEN SubSeq(content, Len(content) - ExcerptTailChars + 1,
                                    Len(content))
                        ELSE <<>>
        excerpt == excerpt_head \o (IF excerpt_tail # <<>>
                                    THEN TruncatedMark \o excerpt_tail ELSE <<>>)
    IN  JDict([k \in {"raw_content_excerpt", "title", "sections", "__parse_error",
                      "__source_length"} |->
                  CASE k = "raw_content_excerpt" -> JStr(_normalize_text(excerpt))
                    [] k = "title" -> JStr(<<"d", "o", "c">>)
                    [] k = "sections" ->
                           JDict([c \in {"content"} |->
                                     JStr(_normalize_text(excerpt_head))])
                    [] k = "__parse_error" -> JStr(error)
                    [] k = "__source_length" -> JInt(Len(content))])

\* a mutant of ChunkedResult: the source length is not recorded
ChunkedResultNoLength(f) ==
    SetItem(SetItem(f.merged, "__chunked", JBool(TRUE)), "__chunks", JInt(Len(f.chunks)))

\* lines 631-634: the merged partials, annotated
ChunkedResult(f) ==
    SetItem(SetItem(SetItem(f.merged, "__source_length", JInt(Len(f.content_norm))),
                    "__chunked", JBool(TRUE)),
            "__chunks", JInt(Len(f.chunks)))

\* lines 631-637: after the last chunk, the merged result is returned if a
\* partial was merged; else the summarizer is called
ChunksDone(f) ==
    IF f.parsed_any
    THEN [f EXCEPT !.ret = ChunkedResult(f), !.pc = "done"]
    ELSE [f EXCEPT !.pc = "summarize"]

\* lines 595-615, 639: the frame up to the first completion call, or the return
ParseEnter(content, template_type) ==
    LET frame == [pc |-> "done", content |-> content, template_type |-> template_type,
                  content_norm |-> <<>>, use_chunked |-> FALSE, chunks |-> <<>>,
                  idx |-> 1, merged |-> JDict(<<>>), parsed_any |-> FALSE,
                  content_for_ai |-> <<>>, ai_response |-> <<>>, error |-> <<>>,
                  completions |-> <<>>, raised |-> FALSE, ret |-> JNull]
        max_direct == _env_int("AI_MAX_DIRECT_EXTRACT_CHARS", 12000)
        content_norm == _normalize_text(content)
        use_chunked == Len(content_norm) > max_direct
        extract_chunk_size == _env_int("AI_EXTRACT_CHUNK_SIZE_CHARS", 9000)
        overlap == _env_int("AI_EXTRACT_CHUNK_OVERLAP_CHARS", 400)
        max_chunks == _env_int("AI_EXTRACT_MAX_CHUNKS", _env_int("AI_MAX_CHUNKS", 8))
        chunks == _split_text_into_chunks(content_norm, extract_chunk_size,
                                          overlap, max_chunks)
    IN  IF template_type \notin TemplatePrompts
        THEN [frame EXCEPT !.ret = JDict([k \in {"raw_content"} |-> JStr(content)])]
        ELSE IF use_chunked
        THEN LET f == [frame EXCEPT !.content_norm = content_norm,
                                    !.use_chunked = TRUE,
                                    !.chunks = chunks,
                                    !.pc = "chunk"]
             IN  IF chunks = <<>> THEN ChunksDone(f) ELSE f
        ELSE [frame EXCEPT !.content_norm = content_norm,
                           !.content_for_ai = content_norm,
                           !.pc = "direct"]

\* a mutant of MergePartial: the partial is merged under what was merged before
MergePartialUnder(merged, partial) == _deep_merge(partial, merged)

\* line 627
MergePartial(merged, partial) == _deep_merge(merged, partial)

\* lines 616-637: generate_completion is called for chunk idx and ends as c
ChunkExtracted(f, c) ==
    IF c.raised THEN Propagated(f)
    ELSE LET ai_resp == StripThink(c.value)
             partial == RobustJsonLoads(ai_resp)
             merges == ~partial.raised /\ partial.value.type = "dict"
             stored == [f EXCEPT
                           !.merged = IF merges THEN MergePartial(@, partial.value)
                                      ELSE @,
                           !.parsed_any = @ \/ merges,
                           !.completions = Append(@, [call |-> "chunk", idx |-> f.idx,
                                                      input |-> f.chunks[f.idx],
                                                      response |-> c.value]),
                           !.idx = @ + 1]
         IN  IF stored.idx > Len(stored.chunks) THEN ChunksDone(stored) ELSE stored

\* a mutant of DirectExtracted: the repair call is made whatever was read
DirectExtractedThenRepair(f, c) ==
    IF c.raised THEN Propagated(f)
    ELSE [f EXCEPT !.completions = Append(@, [call |-> "direct", idx |-> 0,
                                              input |-> f.content_for_ai,
                                              response |-> c.value]),
                   !.ai_response = StripThink(c.value).text,
                   !.pc = "repair"]

\* lines 641-661: generate_completion is called with the full prompt and ends as c
DirectExtracted(f, c) ==
    IF c.raised THEN Propagated(f)
    ELSE LET ai_response == StripThink(c.value)
             data == RobustJsonLoads(ai_response)
             called == [f EXCEPT
                           !.completions = Append(@, [call |-> "direct", idx |-> 0,
                                                      input |-> f.content_for_ai,
                                                      response |-> c.value])]
         IN  IF ~data.raised
             THEN [called EXCEPT
                      !.ret = IF data.value.type = "dict"
                              THEN SetItem(data.value, "__source_length",
                                           JInt(Len(f.content)))
                              ELSE data.value,
                      !.pc = "done"]
             ELSE [called EXCEPT !.ai_response = ai_response.text,
                                 !.error = data.error,
                                 !.pc = "repair"]

\* lines 650-671: generate_completion is called with the repair prompt and ends as c
RepairExtracted(f, c) ==
    IF c.raised THEN Propagated(f)
    ELSE LET repaired == StripThink(c.value)
             data == RobustJsonLoads(repaired)
             called == [f EXCEPT
                           !.completions = Append(@, [call |-> "repair", idx |-> 0,
                                                      input |-> f.ai_response,
                                                      response |-> c.value]),
                           !.pc = "done"]
         IN  IF ~data.raised
             THEN [called EXCEPT
                      !.ret = IF data.value.type = "dict"
                              THEN SetItem(SetItem(data.value, "__source_length",
                                                   JInt(Len(f.content))),
                                           "__repaired", JBool(TRUE))
                              ELSE data.value]
             ELSE [called EXCEPT !.ret = ExcerptResult(f.content, f.error)]

\* the summarizer is entered when the frame waits for it (line 637)
SummarizerFor(p) ==
    IF p.pc = "summarize"
    THEN SummarizeEnter(p.content_norm, _env_int("AI_SUMMARY_TARGET_CHARS", 12000))
    ELSE summarize

\* parse_ai_content_for_template is called: lines 595-615
ParseCalled ==
    /\ parse.pc = "call"
    /\ LET entered == ParseEnter(parse.content, parse.template_type)
       IN  /\ summarize' = SummarizerFor(entered)
           /\ parse' = SummaryReturned(entered, summarize')
    /\ UNCHANGED <<orderVars, execVars, callVars, split, env>>

\* line 624: generate_completion returns for a chunk
ChunkExtractReturns ==
    /\ parse.pc = "chunk"
    /\ \E o \in ExtractOutcomes :
           LET extracted == ChunkExtracted(parse, generate_completion(o))
           IN  /\ summarize' = SummarizerFor(extracted)
               /\ parse' = SummaryReturned(extracted, summarize')
    /\ UNCHANGED <<orderVars, execVars, callVars, split, env>>

\* line 642: generate_completion returns for the full prompt
DirectReturns ==
    /\ parse.pc = "direct"
    /\ \E o \in ExtractOutcomes : parse' = DirectExtracted(parse, generate_completion(o))
    /\ UNCHANGED <<orderVars, execVars, callVars, split, summarize, env>>

\* line 655: generate_completion returns for the repair prompt
RepairReturns ==
    /\ parse.pc = "repair"
    /\ \E o \in ExtractOutcomes : parse' = RepairExtracted(parse, generate_completion(o))
    /\ UNCHANGED <<orderVars, execVars, callVars, split, summarize, env>>

InitParse ==
    /\ arg_nodes = <<>>
    /\ arg_edges = <<>>
    /\ ret_order = <<>>
    /\ InitExecutor
    /\ CallIdle
    /\ split = NoCall
    /\ summarize = NoCall
    /\ parse \in [pc : {"call"}, content : ParseTexts, template_type : TemplateTypes]
    /\ env \in Envs
    /\ ReadingsAgree

NextParse ==
    \/ ParseCalled
    \/ ChunkExtractReturns
    \/ ChunkSummaryReturns
    \/ CompressionReturns
    \/ DirectReturns
    \/ RepairReturns

SpecParse == InitParse /\ [][NextParse]_vars

(***************************************************************************)
(* Graph notions the properties of _build_execution_order are stated with. *)
(***************************************************************************)
\* the edges whose source and target are both ids of the node list
KnownEdges(nodes, edges) ==
    SelectSeq(edges, LAMBDA e : e.source \in IdsOf(nodes) /\ e.target \in IdsOf(nodes))

EdgeRel(nodes, edges) ==
    {<<e.source, e.target>> : e \in Range(KnownEdges(nodes, edges))}

RECURSIVE TransitiveClosure(_)
TransitiveClosure(R) ==
    LET R2 == R \cup {<<pq[1][1], pq[2][2]>> :
                         pq \in {x \in R \X R : x[1][2] = x[2][1]}}
    IN  IF R2 = R THEN R ELSE TransitiveClosure(R2)

Reaches(nodes, edges) == TransitiveClosure(EdgeRel(nodes, edges))

IsDAG(nodes, edges) == \A id \in IdsOf(nodes) : <<id, id>> \notin Reaches(nodes, edges)

HasCycle(nodes, edges) == ~IsDAG(nodes, edges)

\* the direct predecessors of id
Preds(nodes, edges, id) == {p \in IdsOf(nodes) : <<p, id>> \in EdgeRel(nodes, edges)}

Max(S) == CHOOSE x \in S : \A y \in S : y <= x

\* the position in order of the predecessor of id that was placed last: the
\* placement that made id ready (0 for a node with no predecessor)
ReadyAt(nodes, edges, order, id) ==
    IF Preds(nodes, edges, id) = {} THEN 0
    ELSE Max({IndexOf(order, p) : p \in Preds(nodes, edges, id)})

\* the position in the edge list of the last edge from src to id
LastEdge(edges, src, id) ==
    Max({k \in DOMAIN edges : edges[k].source = src /\ edges[k].target = id})

\* the position of id in the node list
NodePos(nodes, id) == CHOOSE i \in DOMAIN nodes : nodes[i].id = id

(***************************************************************************)
(* C1: for a node list with distinct ids and an edge list whose edges      *)
(* between known ids form a DAG, _build_execution_order returns every node *)
(* id exactly once, puts the source of every known edge before its target, *)
(* and returns what it returns without the edges that name an unknown id.  *)
(***************************************************************************)
C1_TopologicalOrder ==
    (ret_order # <<>> /\ IsDAG(arg_nodes, arg_edges)) =>
        LET order == ret_order[1]
            known == KnownEdges(arg_nodes, arg_edges)
        IN  /\ Len(order) = Len(arg_nodes)
            /\ Range(order) = IdsOf(arg_nodes)
            /\ \A e \in Range(known) :
                   IndexOf(order, e.source) < IndexOf(order, e.target)
            /\ order = _build_execution_order(arg_nodes, known)

C1_Witness ==
    /\ ret_order # <<>>
    /\ IsDAG(arg_nodes, arg_edges)
    /\ Len(arg_nodes) = 2
    /\ Len(KnownEdges(arg_nodes, arg_edges)) >= 1
    /\ Len(KnownEdges(arg_nodes, arg_edges)) < Len(arg_edges)
    /\ Len(ret_order[1]) = 2

(***************************************************************************)
(* C10 as stated: whenever several nodes are ready at the same time (all   *)
(* their predecessors already placed), the one placed is the one that      *)
(* comes first in the input node list.                                     *)
(***************************************************************************)
C10_TiesByNodeOrder ==
    ret_order # <<>> =>
        LET order == ret_order[1]
        IN  \A i, j \in DOMAIN order :
                (i < j /\ ReadyAt(arg_nodes, arg_edges, order, order[j]) < i)
                    => NodePos(arg_nodes, order[i]) < NodePos(arg_nodes, order[j])

(***************************************************************************)
(* C10 amended: ready nodes are served first in, first out. The nodes with *)
(* no incoming known edge come first, in node-list order; a node that      *)
(* became ready earlier is placed earlier; nodes made ready by the         *)
(* placement of the same node are placed in the order of that node's       *)
(* (last) edges to them in the edge list; and nodes [A,B,C] with edges     *)
(* A->B, A->C, B->C yield [A,B,C].                                         *)
(***************************************************************************)
C10_FifoOrder ==
    ret_order # <<>> =>
        LET order == ret_order[1]
            roots == {id \in IdsOf(arg_nodes) : Preds(arg_nodes, arg_edges, id) = {}}
            at(id) == ReadyAt(arg_nodes, arg_edges, order, id)
        IN  /\ \A id \in roots : id \in Range(order) /\ IndexOf(order, id) <= Cardinality(roots)
            /\ \A i, j \in DOMAIN order :
                   i < j =>
                       /\ at(order[i]) <= at(order[j])
                       /\ ({order[i], order[j]} \subseteq roots)
                              => NodePos(arg_nodes, order[i]) < NodePos(arg_nodes, order[j])
                       /\ (at(order[i]) = at(order[j]) /\ at(order[i]) > 0)
                              => LastEdge(arg_edges, order[at(order[i])], order[i])
                                     < LastEdge(arg_edges, order[at(order[j])], order[j])
            /\ (/\ arg_nodes = <<WorkflowNode("A"), WorkflowNode("B"), WorkflowNode("C")>>
                /\ arg_edges = <<WorkflowEdge("A", "B"), WorkflowEdge("A", "C"),
                                 WorkflowEdge("B", "C")>>)
                   => order = <<"A", "B", "C">>

\* two nodes made ready by the same placement are placed against the node-list order
C10_Witness ==
    /\ ret_order # <<>>
    /\ LET order == ret_order[1]
       IN  \E i, j \in DOMAIN order :
               /\ i < j
               /\ ReadyAt(arg_nodes, arg_edges, order, order[i]) > 0
               /\ ReadyAt(arg_nodes, arg_edges, order, order[i])
                      = ReadyAt(arg_nodes, arg_edges, order, order[j])
               /\ NodePos(arg_nodes, order[j]) < NodePos(arg_nodes, order[i])

(***************************************************************************)
(* Notions the properties of the executor are stated with.                 *)
(***************************************************************************)
Executions == DOMAIN execution

\* the node list and the edge list of the stored workflow
WfNodes == workflow[1].nodes
WfEdges == workflow[1].edges

\* the seed context of e
SeedContext(e) == [file_ids |-> execution[e].input_file_ids, content |-> ""]

\* the artifact id a result carries ("" if none)
ArtifactOf(r) == IF r.result_file_id # "" THEN r.result_file_id ELSE r.file_id

\* the results of the calls of e that returned, under their node ids
ReturnedResults(e) ==
    LET done == {k \in DOMAIN calls[e] : ~calls[e][k].raised}
    IN  [n \in {calls[e][k].node_id : k \in done} |->
            calls[e][CHOOSE k \in done : calls[e][k].node_id = n].result]

\* the context e holds after its k-th call returned: what the next call is
\* handed, or the frame's current_data after the last call
ContextAfter(e, k) ==
    IF k < Len(calls[e]) THEN calls[e][k + 1].input_data ELSE task[e].current_data

(***************************************************************************)
(* C2 as stated: when the edges of the workflow contain a cycle, the       *)
(* execution ends failed with an error recorded and _execute_node is       *)
(* called for no node.                                                     *)
(***************************************************************************)
C2_CycleFailsValidation ==
    \A e \in Executions :
        HasCycle(WfNodes, WfEdges) =>
            /\ calls[e] = <<>>
            /\ task[e].pc = "done" =>
                   /\ execution[e].status = "failed"
                   /\ execution[e].error_message # ""

(***************************************************************************)
(* C3: if _execute_node raises for a node, the execution is failed, its    *)
(* error_message is the text of the exception, and no call of              *)
(* _execute_node follows the raising one.                                  *)
(***************************************************************************)
C3_RaiseAbortsExecution ==
    \A e \in Executions :
        \A k \in DOMAIN calls[e] :
            calls[e][k].raised =>
                /\ k = Len(calls[e])
                /\ execution[e].status = "failed"
                /\ execution[e].error_message = calls[e][k].text
                /\ task[e].pc = "done"

\* node 2 of 3 raised: one node ran before it, one was never called
C3_Witness ==
    \E e \in Executions :
        /\ Len(calls[e]) = 2
        /\ calls[e][2].raised
        /\ calls[e][2].text = "ConnectError"
        /\ Len(task[e].node_order) = 3

(***************************************************************************)
(* C4 as stated: after the k-th node of the order raised, the node_results *)
(* that get_workflow_execution returns hold exactly the results of the     *)
(* k-1 nodes that completed before it (a null node_results is read as      *)
(* holding no result).                                                     *)
(***************************************************************************)
C4_ResultsSurviveFailure ==
    \A e \in Executions :
        (calls[e] # <<>> /\ calls[e][Len(calls[e])].raised) =>
            LET shown == get_workflow_execution(e).node_results
            IN  IF shown = <<>>
                THEN ReturnedResults(e) = <<>>
                ELSE shown[1] = ReturnedResults(e)

C6_TerminalIsFinal ==
    [][\A e \in Executions :
           execution[e].status \in {"completed", "failed", "cancelled"} =>
               /\ execution'[e].status = execution[e].status
               /\ execution[e].status = "cancelled" => calls'[e] = <<>>]_vars

(***************************************************************************)
(* C7 as stated: the context handed to a node depends only on the seed     *)
(* context and on the results of the node's transitive predecessors.       *)
(* A node that is not a predecessor may return a result that carries       *)
(* nothing, which leaves the context as it was; so the context must be the *)
(* seed threaded with the results of the predecessors alone.               *)
(***************************************************************************)
RECURSIVE ThreadPredecessors(_, _, _, _)
ThreadPredecessors(e, k, j, ctx) ==
    IF j >= k THEN ctx
    ELSE IF <<calls[e][j].node_id, calls[e][k].node_id>> \in Reaches(WfNodes, WfEdges)
         THEN ThreadPredecessors(e, k, j + 1, ThreadContext(ctx, calls[e][j].result))
         ELSE ThreadPredecessors(e, k, j + 1, ctx)

C7_OnlyPredecessorsSeen ==
    \A e \in Executions :
        \A k \in DOMAIN calls[e] :
            calls[e][k].input_data = ThreadPredecessors(e, k, 1, SeedContext(e))

(***************************************************************************)
(* C8: the first node is handed the seed context; after a node returns,    *)
(* the content of the context is the content of its result if the result   *)
(* carries one and is unchanged otherwise, and file_ids is the one-element *)
(* list of the artifact id of the result if it carries one and is          *)
(* unchanged otherwise.                                                    *)
(***************************************************************************)
C8_ContextReplaced ==
    \A e \in Executions :
        /\ calls[e] # <<>> => calls[e][1].input_data = SeedContext(e)
        /\ \A k \in DOMAIN calls[e] :
               ~calls[e][k].raised =>
                   LET r == calls[e][k].result
                       before == calls[e][k].input_data
                       after == ContextAfter(e, k)
                   IN  /\ after.content =
                              IF r.content # "" THEN r.content ELSE before.content
                       /\ after.file_ids =
                              IF ArtifactOf(r) # "" THEN <<ArtifactOf(r)>>
                              ELSE before.file_ids

\* the second node's content and artifact replaced those of the first
C8_Witness ==
    \E e \in Executions :
        /\ Len(calls[e]) = 2
        /\ calls[e][1].result = Result("c2", "f1", "", "")
        /\ calls[e][2].result = Result("", "f1", "f2", "")
        /\ ~calls[e][2].raised
        /\ task[e].current_data = [file_ids |-> <<"f2">>, content |-> "c2"]
        /\ execution[e].input_file_ids = <<"f0">>

(***************************************************************************)
(* C9 as stated: the output_file_id of a completed execution is the        *)
(* artifact produced by the last node of the execution order.              *)
(***************************************************************************)
C9_OutputOfLastNode ==
    \A e \in Executions :
        (execution[e].status = "completed" /\ calls[e] # <<>>) =>
            execution[e].output_file_id = ArtifactOf(calls[e][Len(calls[e])].result)

(***************************************************************************)
(* C9 amended: the output_file_id of a completed execution is the artifact *)
(* of the last node of the order whose result carried one (result_file_id  *)
(* before file_id); when no node's result carried one it is the first      *)
(* input file id, and it is unset when there is none either.               *)
(***************************************************************************)
C9_OutputOfLastArtifact ==
    \A e \in Executions :
        execution[e].status = "completed" =>
            LET carrying == {k \in DOMAIN calls[e] : ArtifactOf(calls[e][k].result) # ""}
            IN  execution[e].output_file_id =
                    IF carrying # {}
                    THEN ArtifactOf(calls[e][Max(carrying)].result)
                    ELSE IF execution[e].input_file_ids # <<>>
                         THEN execution[e].input_file_ids[1]
                         ELSE ""

\* the last node carried no artifact: the output is the one of the node before it
C9_Witness ==
    \E e \in Executions :
        /\ execution[e].status = "completed"
        /\ Len(calls[e]) = 2
        /\ ArtifactOf(calls[e][1].result) = "f2"
        /\ ArtifactOf(calls[e][2].result) = ""
        /\ execution[e].output_file_id = "f2"

(***************************************************************************)
(* C11: node_results only gains entries, no entry of it is ever removed or *)
(* replaced; every key of node_results, in the frame and in the row, is    *)
(* the id of a node of the node list the execution started with; and       *)
(* current_node names a node before the handler of that node is            *)
(* dispatched: while the handler is pending and in the step that runs it,  *)
(* the row's current_node is the id of the node handed to the handler.     *)
(***************************************************************************)
C11_ResultsOnlyGrow ==
    /\ [](\A e \in Executions :
             /\ DOMAIN task[e].node_results \subseteq IdsOf(task[e].nodes)
             /\ execution[e].node_results # <<>> =>
                    DOMAIN execution[e].node_results[1] \subseteq IdsOf(task[e].nodes)
             /\ task[e].pc = "exec" => execution[e].current_node = CurrentNode(e).id)
    /\ [][\A e \in Executions :
             /\ \A n \in DOMAIN task[e].node_results :
                    /\ n \in DOMAIN task'[e].node_results
                    /\ task'[e].node_results[n] = task[e].node_results[n]
             /\ execution[e].node_results # <<>> =>
                    execution'[e].node_results = execution[e].node_results
             /\ Len(calls'[e]) > Len(calls[e]) =>
                    calls'[e][Len(calls'[e])].node_id = execution[e].current_node]_vars

\* two results are held and the third node is current, its handler pending
C11_Witness ==
    \E e \in Executions :
        /\ task[e].pc = "exec"
        /\ Cardinality(DOMAIN task[e].node_results) = 2
        /\ execution[e].current_node \notin DOMAIN task[e].node_results
        /\ execution[e].current_node = task[e].node_order[3]

(***************************************************************************)
(* Notions the properties of _split_text_into_chunks are stated with.      *)
(***************************************************************************)
\* the characters of s that are not whitespace
NonSpace(s) == SelectSeq(s, LAMBDA c : ~IsSpace(c))

\* the chunks ds, from the i-th on, lie on t one after the other, each one
\* starting no later than where the ones before it end (covered characters so
\* far) and no earlier than the one before it (from), and they end where t ends
RECURSIVE CoversFrom(_, _, _, _, _)
CoversFrom(t, ds, i, from, covered) ==
    IF i > Len(ds) THEN covered = Len(t)
    ELSE \E start \in from..covered :
             /\ start + Len(ds[i]) <= Len(t)
             /\ SubSeq(t, start + 1, start + Len(ds[i])) = ds[i]
             /\ CoversFrom(t, ds, i + 1, start, Max2(covered, start + Len(ds[i])))

\* the chunks cover the text, whitespace aside
Covers(text, chunks) ==
    CoversFrom(NonSpace(_normalize_text(text)),
               [i \in DOMAIN chunks |-> NonSpace(chunks[i])], 1, 0, 0)

(***************************************************************************)
(* C18: every chunk _split_text_into_chunks returns is at most max_chars   *)
(* long, the chunks packed from paragraphs and the windows cut from a long *)
(* paragraph alike, for every text and all positive max_chars,             *)
(* overlap_chars and max_chunks.                                           *)
(***************************************************************************)
C18_ChunkWithinMaxChars ==
    split.pc = "done" =>
        \A i \in DOMAIN split.ret : Len(split.ret[i]) <= split.max_chars

\* a chunk packed from two paragraphs, full to max_chars, and windows after it
C18_Witness ==
    /\ split.pc = "done"
    /\ Len(split.ret) >= 3
    /\ \E i \in DOMAIN split.ret :
           /\ Len(split.ret[i]) = split.max_chars
           /\ \E k \in 1..(Len(split.ret[i]) - 1) :
                  split.ret[i][k] = "\n" /\ split.ret[i][k + 1] = "\n"
    /\ \E i \in DOMAIN split.ret :
           /\ Len(split.ret[i]) = split.max_chars
           /\ \A k \in DOMAIN split.ret[i] : split.ret[i][k] # "\n"

(***************************************************************************)
(* C19 as stated: for every text, the chunks, overlap aside, cover the     *)
(* text without a gap: no part of the text is missing from the chunks.     *)
(* (Whitespace is left aside: the chunks are stripped.)                    *)
(***************************************************************************)
C19_CoversText ==
    split.pc = "done" => Covers(split.text, split.ret)

(***************************************************************************)
(* C19 amended: when fewer than max_chunks chunks are returned, the chunks *)
(* in order cover every character of the normalized text that is not       *)
(* whitespace, without a gap, consecutive chunks overlapping at most.      *)
(***************************************************************************)
C19_CoversTextBelowMaxChunks ==
    (split.pc = "done" /\ Len(split.ret) < split.max_chunks) =>
        Covers(split.text, split.ret)

\* fewer than max_chunks chunks, two of them windows that overlap
C19_Witness ==
    /\ split.pc = "done"
    /\ Len(split.ret) >= 2
    /\ Len(split.ret) < split.max_chunks
    /\ Len(NonSpace(join(<<>>, split.ret))) > Len(NonSpace(split.text))

(***************************************************************************)
(* C20: _split_text_into_chunks never returns an empty chunk, the windows  *)
(* cut from a long paragraph included.                                     *)
(***************************************************************************)
C20_NoEmptyChunk ==
    split.pc = "done" => \A i \in DOMAIN split.ret : split.ret[i] # <<>>

(***************************************************************************)
(* Notions the properties of _hierarchical_summarize are stated with.      *)
(***************************************************************************)
\* the completion calls of the summarizer frame f of the kind call
CallsOf(f, call) == SelectSeq(f.completions, LAMBDA c : c.call = call)

Entered(p) == p.pc \notin {"idle", "call"}

\* the text goes the direct way: its type has a prompt, and normalized it is
\* no longer than the direct threshold
Direct(p) ==
    /\ p.template_type \in TemplatePrompts
    /\ Len(_normalize_text(p.content)) <= _env_int("AI_MAX_DIRECT_EXTRACT_CHARS", 12000)

\* what reading the response of the call c gives
PartialOf(c) == RobustJsonLoads(StripThink(c.response))

Parsed(c) == ~PartialOf(c).raised
ParsedObject(c) == Parsed(c) /\ PartialOf(c).value.type = "dict"

\* the calls of the frame p of the kind call
ParseCallsOf(p, call) == SelectSeq(p.completions, LAMBDA c : c.call = call)

\* the left fold by _deep_merge of the values read from the calls made, from acc
RECURSIVE FoldLeft(_, _)
FoldLeft(acc, made) ==
    IF made = <<>> THEN acc
    ELSE FoldLeft(_deep_merge(acc, PartialOf(made[1]).value), Tail(made))

Annotations == {"__source_length", "__chunked", "__chunks"}

\* the dict d without its annotations
Unannotated(d) == JDict([k \in DOMAIN d.items \ Annotations |-> d.items[k]])

(***************************************************************************)
(* C12: for a text no longer than the direct threshold,                    *)
(* parse_ai_content_for_template makes exactly one completion call when    *)
(* the first response parses as JSON, and never more than two, the direct  *)
(* call and one repair call, whatever the service returns.                 *)
(***************************************************************************)
C12_DirectCallCount ==
    (Entered(parse) /\ Direct(parse)) =>
        LET made == parse.completions
        IN  /\ Len(made) <= 2
            /\ Len(made) >= 1 => made[1].call = "direct"
            /\ Len(made) = 2 => made[2].call = "repair" /\ ~Parsed(made[1])
            /\ (Len(made) >= 1 /\ Parsed(made[1])) => Len(made) = 1 /\ parse.pc = "done"
            /\ parse.pc = "done" => Len(made) >= 1

\* one call, its response read as a value that is not an object, and returned
C12_Witness ==
    /\ parse.pc = "done"
    /\ Direct(parse)
    /\ Len(parse.completions) = 1
    /\ Parsed(parse.completions[1])
    /\ ~ParsedObject(parse.completions[1])

C14_AlwaysAnnotated ==
    parse.pc = "done" =>
        /\ parse.ret.type = "dict"
        /\ Annotations \subseteq DOMAIN parse.ret.items

(***************************************************************************)
(* C15: on every path, the source length recorded in the result is the     *)
(* length of the normalized input text.                                    *)
(***************************************************************************)
C15_SourceLengthNormalized ==
    (/\ parse.pc = "done"
     /\ parse.ret.type = "dict"
     /\ "__source_length" \in DOMAIN parse.ret.items) =>
        parse.ret.items["__source_length"] = JInt(Len(_normalize_text(parse.content)))

MergedA == Deref(merge.before, merge.a)
MergedB == Deref(merge.before, merge.b)
MergeRet == Deref(merge.heap, merge.ret)

MergedTypes(ta, tb) ==
    merge.pc = "done" /\ MergedA.type = ta /\ MergedB.type = tb

\* C22 as stated: of two strings, _deep_merge returns the non-empty one when
\* exactly one is empty, and the longer one when both are non-empty
C22_LongerStringWins ==
    MergedTypes("str", "str") =>
        LET a == MergedA.str
            b == MergedB.str
        IN  /\ (a = <<>> /\ b # <<>>) => MergeRet = MergedB
            /\ (a # <<>> /\ b = <<>>) => MergeRet = MergedA
            /\ (a # <<>> /\ b # <<>> /\ Len(a) > Len(b)) => MergeRet = MergedA
            /\ (a # <<>> /\ b # <<>> /\ Len(b) > Len(a)) => MergeRet = MergedB

\* C22 corrected: of two strings, _deep_merge returns one of them as it was
\* given; a string of whitespace only counts as empty and lengths are taken
\* without the surrounding whitespace: b is returned when a is empty in this
\* sense, a when only b is, and otherwise the longer one, b when they tie
C22_LongerStrippedStringWins ==
    MergedTypes("str", "str") =>
        LET a == strip(MergedA.str)
            b == strip(MergedB.str)
        IN  /\ MergeRet \in {MergedA, MergedB}
            /\ a = <<>> => MergeRet = MergedB
            /\ (a # <<>> /\ b = <<>>) => MergeRet = MergedA
            /\ (a # <<>> /\ b # <<>> /\ Len(a) > Len(b)) => MergeRet = MergedA
            /\ (a # <<>> /\ b # <<>> /\ Len(b) >= Len(a)) => MergeRet = MergedB

\* two strings that are longer than their stripped texts have been merged, and
\* the one that is longer as given is not the one returned
C22_Witness ==
    /\ MergedTypes("str", "str")
    /\ strip(MergedA.str) # <<>>
    /\ strip(MergedB.str) # <<>>
    /\ Len(MergedB.str) > Len(MergedA.str)
    /\ MergeRet = MergedA
    /\ MergedA # MergedB

\* x in items, of Python
In(x, items) == \E i \in DOMAIN items : PyEq(items[i], x)

\* the items of b that are not in a
NotIn(a, b) == SelectSeq(b, LAMBDA x : ~In(x, a))

\* the items of s, each at its first occurrence only
RECURSIVE FirstOccurrences(_)
FirstOccurrences(s) ==
    IF s = <<>> THEN <<>>
    ELSE LET front == SubSeq(s, 1, Len(s) - 1)
         IN  IF In(s[Len(s)], front) THEN FirstOccurrences(front)
             ELSE Append(FirstOccurrences(front), s[Len(s)])

\* C23 as stated: of two lists, _deep_merge returns a followed by the items of
\* b that are not in a, in b's order
C23_AppendsMissing ==
    MergedTypes("list", "list") =>
        MergeRet = JList(MergedA.items \o NotIn(MergedA.items, MergedB.items))

\* C23 corrected: of two lists, _deep_merge returns a, repeated items and all,
\* followed by the items of b that are not in a, each once, at its first
\* occurrence in b; items are equal as Python's == has them (True equals 1)
C23_AppendsMissingOnce ==
    MergedTypes("list", "list") =>
        MergeRet = JList(MergedA.items
                            \o FirstOccurrences(NotIn(MergedA.items, MergedB.items)))

\* a has an item twice and keeps both; b has an item of a and, twice, an item
\* that a has not, which is appended once
C23_Witness ==
    /\ MergedTypes("list", "list")
    /\ \E i, j \in DOMAIN MergedA.items : i < j /\ MergedA.items[i] = MergedA.items[j]
    /\ \E i \in DOMAIN MergedB.items : In(MergedB.items[i], MergedA.items)
    /\ \E i, j \in DOMAIN MergedB.items :
           /\ i < j
           /\ MergedB.items[i] = MergedB.items[j]
           /\ ~In(MergedB.items[i], MergedA.items)
    /\ Len(MergeRet.items) = Len(MergedA.items) + 1

\* C24: of two maps, _deep_merge returns a map over the keys of both, where a
\* key of one map only has that map's value and a key of both has the merge of
\* the two values; merging None with a value returns that value itself; and
\* every object that was there before the call is as it was
C24_MapUnion ==
    merge.pc = "done" =>
        /\ MergedTypes("dict", "dict") =>
               /\ MergeRet.type = "dict"
               /\ DOMAIN MergeRet.items = DOMAIN MergedA.items \cup DOMAIN MergedB.items
               /\ \A k \in DOMAIN MergeRet.items :
                      MergeRet.items[k] =
                          IF k \notin DOMAIN MergedB.items THEN MergedA.items[k]
                          ELSE IF k \notin DOMAIN MergedA.items THEN MergedB.items[k]
                          ELSE _deep_merge(MergedA.items[k], MergedB.items[k])
        /\ MergedA.type = "null" => merge.ret = merge.b
        /\ (MergedA.type # "null" /\ MergedB.type = "null") => merge.ret = merge.a
        /\ SubSeq(merge.heap, 1, Len(merge.before)) = merge.before

\* two maps have been merged: each has a key of its own, and under the key
\* they share both hold a map, which the merge had to write into
C24_Witness ==
    /\ MergedTypes("dict", "dict")
    /\ merge.a # merge.b
    /\ DOMAIN MergedA.items \ DOMAIN MergedB.items # {}
    /\ \E k \in DOMAIN MergedA.items \cap DOMAIN MergedB.items :
           /\ MergedA.items[k].type = "dict"
           /\ MergedB.items[k].type = "dict"
           /\ MergeRet.items[k] # MergedA.items[k]
    /\ Len(merge.heap) > Len(merge.before) + 1

\* C25: _deep_merge(x, x) is x, whether the two arguments are one object or
\* two equal ones
C25_Idempotent ==
    (merge.pc = "done" /\ MergedA = MergedB) => MergeRet = MergedA

\* a map that holds a list with a repeated item has been merged with itself
C25_Witness ==
    /\ MergedTypes("dict", "dict")
    /\ MergedA = MergedB
    /\ \E k \in DOMAIN MergedA.items :
           /\ MergedA.items[k].type = "list"
           /\ Len(MergedA.items[k].items) = 2
           /\ MergedA.items[k].items[1] = MergedA.items[k].items[2]
    /\ MergeRet = MergedA

(***************************************************************************)
(* _infer_template_type in auto mode.                                      *)
(***************************************************************************)
\* the scores of the slice that was inspected
InspectedScore == Score(lower(SubSeq(infer.text, 1, Min2(Len(infer.text), InferSliceChars))))

\* the archetypes with the highest score
TopArchetypes(score) ==
    {a \in DOMAIN score : \A b \in DOMAIN score : score[b] <= score[a]}

\* C26 as stated: in auto mode, when two or more archetypes tie for the highest
\* score in the inspected slice, the inferred type is the generic one
C26_TieIsDefault ==
    (infer.pc = "done" /\ infer.template_type \in {"", "auto"}) =>
        (Cardinality(TopArchetypes(InspectedScore)) >= 2 => infer.inferred = "default")

(***************************************************************************)
(* The scanner of _balanced_json_substrings.                               *)
(***************************************************************************)
\* the number of backslashes that stand directly before position p, after q
RECURSIVE BackslashRun(_, _, _)
BackslashRun(text, q, p) ==
    IF p - 1 > q /\ text[p - 1] = "\\" THEN 1 + BackslashRun(text, q, p - 1) ELSE 0

\* the quote that closes the string opened by the quote at q: the first quote
\* after q that an even number of backslashes precedes; 0 if there is none
ClosingQuote(text, q) ==
    LET closing == {p \in (q + 1)..Len(text) :
                       text[p] = "\"" /\ BackslashRun(text, q, p) % 2 = 0}
    IN  IF closing = {} THEN 0 ELSE CHOOSE p \in closing : \A r \in closing : p <= r

\* position j lies in a quoted string, after its opening quote and up to its
\* closing quote, the strings being those that open from position from on
RECURSIVE InString(_, _, _)
InString(text, from, j) ==
    LET q == Find(text, <<"\"">>, from)
        close == ClosingQuote(text, q)
    IN  IF q = 0 \/ q >= j THEN FALSE
        ELSE IF close = 0 \/ close >= j THEN TRUE
        ELSE InString(text, close + 1, j)

\* the delimiters opened and not yet closed from the start of the scan to
\* position j, those in quoted strings left out
Depth(f, j) ==
    Cardinality({k \in f.start..j : f.text[k] = f.start_char /\ ~InString(f.text, f.start, k)})
        - Cardinality({k \in f.start..j : f.text[k] = f.end_char /\ ~InString(f.text, f.start, k)})

\* the scanner is normal, in a string, or in a string after a backslash
ScannerState(f) ==
    IF ~f.in_string /\ ~f.escape THEN "normal"
    ELSE IF f.in_string /\ ~f.escape THEN "in-string"
    ELSE IF f.in_string /\ f.escape THEN "in-string-escaped"
    ELSE "other"

\* C28, the states: the scanner is in one of its three states and has counted
\* the delimiters outside quoted strings only; a candidate is the text from the
\* start position to the first closing delimiter outside a string at which the
\* count is back to zero, and there is no candidate only if there is no such
\* delimiter
C28_ScannerInv ==
    scan.pc # "idle" =>
        /\ ScannerState(scan) \in {"normal", "in-string", "in-string-escaped"}
        /\ scan.pc = "scan" =>
               /\ scan.depth = Depth(scan, scan.i - 1)
               /\ scan.in_string = InString(scan.text, scan.start, scan.i)
               /\ scan.frag = <<>>
        /\ (scan.pc = "done" /\ scan.frag # <<>>) =>
               /\ scan.frag = <<SubSeq(scan.text, scan.start, scan.i)>>
               /\ scan.text[scan.i] = scan.end_char
               /\ ~InString(scan.text, scan.start, scan.i)
               /\ Depth(scan, scan.i) = 0
               /\ \A j \in scan.start..(scan.i - 1) : Depth(scan, j) > 0
        /\ (scan.pc = "done" /\ scan.frag = <<>>) =>
               \A j \in scan.start..Len(scan.text) : Depth(scan, j) > 0

\* C28, the steps: a character read inside a string leaves the depth as it
\* is, whatever the character; the scanner goes from normal to in-string, from
\* in-string to normal or to escaped, and from escaped back to in-string
C28_ScannerStep ==
    (scan.pc = "scan" /\ scan'.i = scan.i + 1) =>
        /\ scan.in_string => scan'.depth = scan.depth
        /\ <<ScannerState(scan), ScannerState(scan')>> \in
               {<<"normal", "normal">>, <<"normal", "in-string">>,
                <<"in-string", "in-string">>, <<"in-string", "in-string-escaped">>,
                <<"in-string", "normal">>, <<"in-string-escaped", "in-string">>}
        /\ (scan.in_string /\ scan.escape) => scan'.in_string

\* C28: in _balanced_json_substrings a brace, bracket or quote inside a quoted
\* string, a quote after a backslash included, never changes the depth; the
\* scanner moves between normal, in-string and in-string-escaped only; and the
\* candidate of a start position ends at the closing delimiter that brings the
\* depth back to zero
C28_StringsRespected == []C28_ScannerInv /\ [][C28_ScannerStep]_vars

\* a candidate has been found after the scanner passed, inside a string, an
\* escaped quote and a closing delimiter, with the depth at two on the way
C28_Witness ==
    /\ scan.pc = "done"
    /\ scan.frag # <<>>
    /\ \E j \in scan.start..scan.i :
           /\ scan.text[j] = "\""
           /\ scan.text[j - 1] = "\\"
           /\ InString(scan.text, scan.start, j)
           /\ InString(scan.text, scan.start, j + 1)
    /\ \E j \in scan.start..scan.i :
           scan.text[j] = scan.end_char /\ InString(scan.text, scan.start, j)
    /\ \E j \in scan.start..scan.i : Depth(scan, j) = 2

(***************************************************************************)
(* _robust_json_loads called alone.                                        *)
(***************************************************************************)
\* the blocks between fences, the balanced substrings and the whole trimmed
\* text of the text that was read, reasoning removed
LoadsFenced ==
    LET blocks == FencedBlocks(_strip_think(loads.text), 1)
    IN  SelectSeq([k \in DOMAIN blocks |-> strip(blocks[k])], LAMBDA b : b # <<>>)

LoadsBalanced == _balanced_json_substrings(_strip_think(loads.text))

LoadsWhole ==
    LET raw == strip(_strip_think(loads.text))
    IN  IF raw # <<>> /\ raw[1] \in {"{", "["} THEN <<raw>> ELSE <<>>

\* what json.loads makes of a candidate once its trailing commas are removed
LoadsValue(cand) ==
    IF RemoveTrailingCommas(strip(cand)) = <<>> THEN <<>>
    ELSE json_loads(RemoveTrailingCommas(strip(cand)))

\* C21: _robust_json_loads returns the value of the first candidate that is
\* JSON once its trailing commas are removed, the candidates being the fenced
\* blocks, then the balanced substrings, then the whole trimmed text; it
\* raises only if none of them is JSON
C21_FirstCandidateWins ==
    loads.pc = "done" =>
        LET candidates == LoadsFenced \o LoadsBalanced \o LoadsWhole
            good == {k \in DOMAIN candidates : LoadsValue(candidates[k]) # <<>>}
        IN  IF good = {} THEN loads.ret.raised
            ELSE /\ ~loads.ret.raised
                 /\ loads.ret.value =
                        LoadsValue(candidates[CHOOSE k \in good : \A j \in good : k <= j])[1]

\* a fenced block that is not JSON came first, a balanced substring that is
\* JSON without its trailing comma was returned, and the whole text, which is
\* not JSON either, was never tried
C21_Witness ==
    /\ loads.pc = "done"
    /\ ~loads.ret.raised
    /\ LoadsFenced # <<>>
    /\ \A k \in DOMAIN LoadsFenced : LoadsValue(LoadsFenced[k]) = <<>>
    /\ LoadsBalanced # <<>>
    /\ json_loads(LoadsBalanced[1]) = <<>>
    /\ LoadsValue(LoadsBalanced[1]) = <<loads.ret.value>>
    /\ LoadsWhole # <<>>
    /\ LoadsValue(LoadsWhole[1]) = <<>>

(***************************************************************************)
(* Nodes whose handler has nothing to work on.                             *)
(***************************************************************************)
\* the node of a call has a type _execute_node has no branch for
UnknownType(c) ==
    NodeById(WfNodes, c.node_id).type \notin FileNodeTypes \cup ContentNodeTypes

\* the node of a call reads a file id and the context handed to it has none
NoFileId(c) ==
    /\ NodeById(WfNodes, c.node_id).type \in FileNodeTypes
    /\ c.input_data.file_ids = <<>> \/ c.input_data.file_ids[1] = ""

\* C30 as stated: a call for a node of unknown type, or for a node that
\* reads a file id when the context has none, returns an error result and
\* does not raise; the result is stored under the node's id, the context
\* after the call is the context before it, and every later node of the
\* order is dispatched
C30_ErrorResultDoesNotAbort ==
    \A e \in Executions :
        \A k \in DOMAIN calls[e] :
            (UnknownType(calls[e][k]) \/ NoFileId(calls[e][k])) =>
                /\ ~calls[e][k].raised
                /\ calls[e][k].result.error # ""
                /\ task[e].node_results[calls[e][k].node_id] = calls[e][k].result
                /\ ContextAfter(e, k) = calls[e][k].input_data
                /\ (task[e].pc = "done" /\ k = Len(calls[e])) =>
                       k = Len(task[e].node_order)

(***************************************************************************)
(* Two executions side by side.                                            *)
(***************************************************************************)
\* the row a run ends with when it runs alone: the order from position k on,
\* the results stored so far, the context, and how each call ends
RECURSIVE AloneFrom(_, _, _, _, _)
AloneFrom(order, k, results, ctx, outs) ==
    IF k > Len(order)
    THEN IF ctx.file_ids # <<>> /\ ~IsUuid(ctx.file_ids[1])
         THEN [status |-> "failed", node_results |-> <<results>>, output_file_id |-> ""]
         ELSE [status |-> "completed", node_results |-> <<results>>,
               output_file_id |-> IF ctx.file_ids # <<>> THEN ctx.file_ids[1] ELSE ""]
    ELSE IF k > Len(outs) \/ outs[k].node_id # order[k] \/ outs[k].input_data # ctx
    THEN [status |-> "none", node_results |-> <<>>, output_file_id |-> ""]
    ELSE IF outs[k].raised
    THEN [status |-> "failed", node_results |-> <<>>, output_file_id |-> ""]
    ELSE AloneFrom(order, k + 1,
                   [n \in DOMAIN results \cup {order[k]} |->
                       IF n = order[k] THEN outs[k].result ELSE results[n]],
                   [content |-> IF outs[k].result.content # ""
                                THEN outs[k].result.content ELSE ctx.content,
                    file_ids |-> IF ArtifactOf(outs[k].result) # ""
                                 THEN <<ArtifactOf(outs[k].result)>> ELSE ctx.file_ids],
                   outs)

\* the row of e run alone on the stored workflow, its calls ending as they did
Alone(e) ==
    AloneFrom(_build_execution_order(WfNodes, WfEdges), 1, <<>>, SeedContext(e), calls[e])

\* C27, the end: an execution that ran beside another ends with the status,
\* the node_results and the output file of its run alone with the same
\* outcomes of its calls, each call handed the context of the run alone
C27_AsAlone ==
    \A e \in Executions :
        (task[e].pc = "done" /\ execution[e].error_message # "Workflow not found") =>
            /\ execution[e].status = Alone(e).status
            /\ execution[e].node_results = Alone(e).node_results
            /\ execution[e].output_file_id = Alone(e).output_file_id

\* C27, the steps: a step that changes the frame of one task leaves the
\* frame, the row and the calls of every other execution as they are
C27_OwnStateOnly ==
    \A x \in DOMAIN task, y \in DOMAIN task :
        (x # y /\ task'[x] # task[x]) =>
            /\ task'[y] = task[y]
            /\ execution'[y] = execution[y]
            /\ calls'[y] = calls[y]

\* C27: two runs of execute_workflow_background for different executions,
\* interleaved at their commits and node calls, never read or write each
\* other's context or node_results: each ends with the status, node_results
\* and output file it has when run alone with the same handler results
C27_ExecutionsIsolated == []C27_AsAlone /\ [][C27_OwnStateOnly]_vars

\* one execution has completed with a result and an output file while the
\* other, seeded with other files, is between two of its calls with another
\* context
C27_Witness ==
    /\ DOMAIN task = TwoExecutionIds
    /\ task["e1"].pc = "done"
    /\ execution["e1"].status = "completed"
    /\ execution["e1"].output_file_id = "f2"
    /\ Len(calls["e1"]) = 2
    /\ task["e2"].pc = "exec"
    /\ Len(calls["e2"]) = 1
    /\ execution["e2"].input_file_ids # execution["e1"].input_file_ids
    /\ task["e2"].current_data # task["e1"].current_data

(***************************************************************************)
(* Runs whose commits may raise.                                           *)
(***************************************************************************)
\* C29 as stated: every run of execute_workflow_background that finds its
\* execution record eventually leaves it completed or failed, whatever the
\* node and edge lists and whether the workflow definition exists or not,
\* each handler call and each commit returning or raising; the status is not
\* running once the run has ended
C29_EndsCompletedOrFailed ==
    \A e \in ExecutionIds :
        [](e \in DOMAIN task =>
               <>[](/\ e \in DOMAIN task
                    /\ task[e].pc = "done"
                    /\ execution[e].status \in {"completed", "failed"}))

====
